---- MODULE Spec2Model ----
(***************************************************************************)
(* Translation Workbench: the caching pipeline of lib/tmx_processing.py    *)
(* and the streaming endpoints of app.py.                                  *)
(*                                                                         *)
(* Persistent state: the TMX segment store (with the memoized token        *)
(* property of each translation unit), cache/segment_files.json,           *)
(* cache/lemmas_master.json (Master Cache), cache/lemmas.json (Working     *)
(* Cache) and cache/concordance_suppressions.json.                         *)
(*                                                                         *)
(* A streaming build is a Python generator: it is modelled one resumption  *)
(* at a time (pc is the generator's position), the legacy handlers are     *)
(* modelled as single actions.                                             *)
(***************************************************************************)
EXTENDS Integers, Sequences, FiniteSets, TLC

(***************************************************************************)
(* Bounds of the model.                                                    *)
(***************************************************************************)
\* largest number of translation units in the store
MaxSegs == 2

\* number of translation units of a long concordance build
LongRun == 250

(***************************************************************************)
(* State.                                                                  *)
(***************************************************************************)
VARIABLES
  store,              \* target/project.tmx: the translation units, in order
  segment_files,      \* cache/segment_files.json
  master,             \* cache/lemmas_master.json
  working,            \* cache/lemmas.json
  suppressions_file,  \* cache/concordance_suppressions.json
  pc,                 \* position of the running handler ("idle": none)
  kind,               \* which handler runs
  force,              \* the force argument of extract_frequencies_stream
  segments,           \* the segment list the handler loaded and passes on
  suppressions,       \* the suppressions the handler read at its start
  frequencies,        \* the frequency builder's accumulator
  todo,               \* what is left of the frequency builder's loops
  master_read,        \* the Master Cache content the concordance builder loaded
  segments_with_tokens, \* the concordance builder's own load of the store
  lemmas,             \* the concordance builder's accumulator
  idx,                \* the concordance builder's loop index (0-based)
  events,             \* the events the stream has yielded so far
  status_code,        \* the HTTP status a non-streaming handler answered (0: none)
  response,           \* the JSON body a non-streaming handler answered
  annot_log,          \* the engine calls of this run: which unit, and whether
                      \* it held well-formed persisted tokens at that moment
  store0, master0, working0, \* the files as they were when the handler began
  request,            \* the JSON body of the request the handler serves
  writers             \* the calls that are rewriting project.tmx concurrently

files == << store, segment_files, master, working, suppressions_file >>
locals == << kind, force, segments, suppressions, frequencies, todo, master_read,
             segments_with_tokens, lemmas, idx >>
history == << events, status_code, response, annot_log, store0, master0, working0,
             request, writers >>
vars == << files, pc, locals, history >>

(***************************************************************************)
(* Source texts and the external annotation engine (stanza).               *)
(* Strings are kept in ASCII ("lop" stands for the Norwegian verb form).   *)
(***************************************************************************)
SrcA == "Katten og hunden lop."
SrcB == "Katten ser katter hm."
SrcF == "\\xff"
SrcP == "Hun ser hans."
SrcE == ""

Texts == {SrcA, SrcB, SrcF}

Word(t, l, p) == [text |-> t, lemma |-> l, upos |-> p]

\* the engine raises on this input (Annotation-Failure)
nlp_raises(text) == text = SrcF

\* doc.sentences / sent.words flattened, as the engine returns them
\* (lemma with the engine's own casing and spacing)
nlp(text) ==
  CASE text = SrcA -> << Word("Katten", "katt", "NOUN"), Word("og", "og", "CCONJ"),
                         Word("hunden", "hund", "NOUN"), Word("lop", "lope", "VERB"),
                         Word(".", ".", "PUNCT") >>
    [] text = SrcB -> << Word("Katten", "Katt", "NOUN"), Word("ser", "se", "VERB"),
                         Word("katter", "katt", "NOUN"), Word("hm", " ", "INTJ"),
                         Word(".", ".", "PUNCT") >>
    [] text = SrcP -> << Word("Hun", "hun", "PRON"), Word("ser", "se", "VERB"),
                         Word("hans", "han|sin", "PRON"), Word(".", ".", "PUNCT") >>
    [] OTHER -> << >>

(***************************************************************************)
(* String functions of the Python runtime, on the strings that occur.      *)
(***************************************************************************)
\* str.lower()
lower(s) ==
  CASE s = "Katten" -> "katten"
    [] s = "Katt" -> "katt"
    [] s = "Hun" -> "hun"
    [] OTHER -> s

\* str.strip()
strip(s) ==
  CASE s = " " -> ""
    [] OTHER -> s

\* str.isalpha()
isalpha(s) ==
  s \in {"Katten", "katten", "katter", "og", "hunden", "lop", "ser", "hm", "Hun", "hun", "hans"}

\* f"{lemma}|{pos}"
lemma_key(lemma, pos) == lemma \o "|" \o pos

\* str.split(sep): the pieces between the occurrences of the separator
RECURSIVE split(_, _)
split(str, sep) ==
  IF \A i \in 1..Len(str) : SubSeq(str, i, i) # sep THEN << str >>
  ELSE LET i == CHOOSE j \in 1..Len(str) :
                  /\ SubSeq(str, j, j) = sep
                  /\ \A k \in 1..(j - 1) : SubSeq(str, k, k) # sep
       IN << SubSeq(str, 1, i - 1) >> \o split(SubSeq(str, i + 1, Len(str)), sep)

\* the lemma and the POS tag the routes show for a lemma key
lemma_dict(lems) ==
  [key \in DOMAIN lems |->
     [lemma |-> split(key, "|")[1], pos |-> split(key, "|")[2]]]

(***************************************************************************)
(* Generic helpers.                                                        *)
(***************************************************************************)
\* the sequences over S of length at most n
SeqsUpTo(S, n) == UNION { [1..k -> S] : k \in 0..n }

\* sorted() on the strings that occur as file names
StrLess(a, b) ==
  LET rank == [s \in {"a.txt", "b.txt", "unknown"} |->
                 CASE s = "a.txt" -> 1 [] s = "b.txt" -> 2 [] OTHER -> 3]
  IN rank[a] < rank[b]

RECURSIVE sorted(_)
sorted(S) ==
  IF S = {} THEN << >>
  ELSE LET m == CHOOSE x \in S : \A y \in S \ {x} : StrLess(x, y)
       IN << m >> \o sorted(S \ {m})

(***************************************************************************)
(* Values of the persistent files.                                         *)
(***************************************************************************)
EmptyMap == [k \in {} |-> 0]

\* a file that is missing, one that does not parse, one that holds `data`
Absent == [tag |-> "absent", data |-> EmptyMap]
Malformed == [tag |-> "malformed", data |-> EmptyMap]
Json(data) == [tag |-> "json", data |-> data]

\* os.path.exists(file)
exists(file) == file.tag # "absent"

\* a JSON object as its text lists it: the key/value pairs of the dict, in
\* insertion order (a token dict is built with text, lemma, pos)
object_pairs(d) ==
  LET keys == SelectSeq(<< "text", "lemma", "pos" >>, LAMBDA k : k \in DOMAIN d)
  IN [j \in DOMAIN keys |-> << keys[j], d[keys[j]] >>]

\* json.dumps(tokens): the array of the objects
json_dumps(tokens) == [i \in DOMAIN tokens |-> object_pairs(tokens[i])]

\* the dict an object's pairs build: the last pair of a key wins
dict(pairs) ==
  [k \in { pairs[j][1] : j \in DOMAIN pairs } |->
     pairs[CHOOSE j \in DOMAIN pairs :
             /\ pairs[j][1] = k
             /\ \A m \in DOMAIN pairs : pairs[m][1] = k => m <= j][2]]

\* json.loads(text) of an array of objects
json_loads(val) == [i \in DOMAIN val |-> dict(val[i])]

\* the text of a <prop type="tokens">: none found, a text json.loads
\* rejects, the JSON text of an array of objects
NoProp == [tag |-> "absent", val |-> << >>]
BadProp == [tag |-> "malformed", val |-> << >>]
TokensProp(tokens) == [tag |-> "json", val |-> json_dumps(tokens)]

\* a text that parses to an array whose object has no lemma
LemmalessProp == [tag |-> "json", val |-> << << << "text", "Katten" >>, << "pos", "NOUN" >> >> >>]

\* tu.find("prop[@type='tokens']"): the first token property of the unit
tokens_prop(tu) == IF tu.token_props = << >> THEN NoProp ELSE Head(tu.token_props)

\* the tokens of a loaded segment: None, or the parsed list
None == [has |-> FALSE, val |-> << >>]
Some(tokens) == [has |-> TRUE, val |-> tokens]

\* a translation unit as export_project_to_tmx writes it
NewTu(i, text) ==
  [id |-> ToString(i), source |-> text, target |-> "", last_updated |-> 0,
   token_props |-> << >>]

\* the segment-to-file mapping written at ingestion: files in sorted order
IngestedFiles(n) == [i \in { ToString(j) : j \in 1..n } |-> IF i = "1" THEN "a.txt" ELSE "b.txt"]

\* a Master Cache left by a build over an earlier corpus
StaleMaster ==
  ("katt|NOUN" :> [wordforms |-> {"katt", "katten"}, count |-> 3])
  @@ ("gammel|ADJ" :> [wordforms |-> {"gamle"}, count |-> 1])

NoSuppressions == [pos |-> {}, lemmas |-> {}]

\* no body has been answered
NoResponse == [lemma_key |-> "", occurrences |-> << >>]

\* no request body is at hand
NoRequest == [segment_id |-> "", target_text |-> ""]

\* no call is rewriting project.tmx on another thread
NoWriters == << >>

\* the suppression sets a user saves
SuppressionChoices ==
  { NoSuppressions,
    [pos |-> {"VERB"}, lemmas |-> {}],
    [pos |-> {}, lemmas |-> {"katt|NOUN"}] }

(***************************************************************************)
(* Segment Store.                                                          *)
(***************************************************************************)
\* load_segments: the units in document order; with include_tokens the
\* parsed token property, None when it is missing, empty or unparseable
load_segments(st, include_tokens) ==
  [i \in DOMAIN st |->
     [id |-> st[i].id, source |-> st[i].source, target |-> st[i].target,
      last_updated |-> st[i].last_updated,
      tokens |-> IF include_tokens /\ tokens_prop(st[i]).tag = "json"
                 THEN Some(json_loads(tokens_prop(st[i]).val)) ELSE None]]

\* (variant) only the first token reaches the file
save_tokens_to_tmx_first_token_only(st, segment_id, tokens) ==
  LET hits == { i \in DOMAIN st : st[i].id = segment_id }
  IN [i \in DOMAIN st |->
        IF i \in hits /\ \A j \in hits : i <= j
        THEN [st[i] EXCEPT !.token_props =
                (IF @ = << >> THEN << >> ELSE Tail(@))
                \o << TokensProp(SubSeq(tokens, 1, 1)) >>]
        ELSE st[i]]

\* (variant) the token property that is found stays, the new one is added
save_tokens_to_tmx_keeps_prior(st, segment_id, tokens) ==
  LET hits == { i \in DOMAIN st : st[i].id = segment_id }
  IN [i \in DOMAIN st |->
        IF i \in hits /\ \A j \in hits : i <= j
        THEN [st[i] EXCEPT !.token_props = @ \o << TokensProp(tokens) >>]
        ELSE st[i]]

\* save_tokens_to_tmx: in the first unit with this tuid, remove the token
\* property that is found and append the new one; then rewrite the file
save_tokens_to_tmx(st, segment_id, tokens) ==
  LET hits == { i \in DOMAIN st : st[i].id = segment_id }
  IN [i \in DOMAIN st |->
        IF i \in hits /\ \A j \in hits : i <= j
        THEN [st[i] EXCEPT !.token_props =
                (IF @ = << >> THEN << >> ELSE Tail(@)) \o << TokensProp(tokens) >>]
        ELSE st[i]]

\* (variant) every unit gets the timestamp
update_target_segment_stamps_every_unit(st, segment_id, new_text, now) ==
  LET hits == { i \in DOMAIN st : st[i].id = segment_id }
  IN [i \in DOMAIN st |->
        IF i \in hits /\ \A j \in hits : i <= j
        THEN [st[i] EXCEPT !.target = new_text, !.last_updated = now]
        ELSE [st[i] EXCEPT !.last_updated = now]]

\* (variant) the unit is written anew, without its token property
update_target_segment_drops_tokens(st, segment_id, new_text, now) ==
  LET hits == { i \in DOMAIN st : st[i].id = segment_id }
  IN [i \in DOMAIN st |->
        IF i \in hits /\ \A j \in hits : i <= j
        THEN [st[i] EXCEPT !.target = new_text, !.last_updated = now,
                           !.token_props = << >>]
        ELSE st[i]]

\* update_target_segment: in the first unit with this tuid, set the target
\* text and the last_updated attribute; then rewrite the file
update_target_segment(st, segment_id, new_text, now) ==
  LET hits == { i \in DOMAIN st : st[i].id = segment_id }
  IN [i \in DOMAIN st |->
        IF i \in hits /\ \A j \in hits : i <= j
        THEN [st[i] EXCEPT !.target = new_text, !.last_updated = now]
        ELSE st[i]]

\* a list of {text, lemma, pos} records
is_token_list(tokens) ==
  \A i \in DOMAIN tokens : DOMAIN tokens[i] = {"text", "lemma", "pos"}

\* the token list tokenize_and_store_segment builds from the engine's words
tokenize(source_text) ==
  [i \in DOMAIN nlp(source_text) |->
     [text |-> nlp(source_text)[i].text,
      lemma |-> lower(nlp(source_text)[i].lemma),
      pos |-> nlp(source_text)[i].upos]]

\* tokenize_and_store_segment: the store after the write-back
tokenize_and_store_segment(st, segment_id, source_text) ==
  save_tokens_to_tmx(st, segment_id, tokenize(source_text))

(***************************************************************************)
(* Frequency aggregation (first pass).                                     *)
(***************************************************************************)
\* (variant) the wordform set is overwritten by the latest wordform
freq_token_last_wordform(freqs, token) ==
  IF ~isalpha(token.text) THEN freqs
  ELSE LET lemma == lower(strip(token.lemma))
           key == lemma_key(lemma, token.pos)
           old == IF key \in DOMAIN freqs THEN freqs[key]
                  ELSE [wordforms |-> {}, count |-> 0]
       IN IF lemma = "" THEN freqs
          ELSE (key :> [wordforms |-> {lower(token.text)},
                        count |-> old.count + 1]) @@ freqs

\* (variant) punctuation and other non-alphabetic tokens are counted too
freq_token_every_token(freqs, token) ==
  LET lemma == lower(strip(token.lemma))
      key == lemma_key(lemma, token.pos)
      old == IF key \in DOMAIN freqs THEN freqs[key]
             ELSE [wordforms |-> {}, count |-> 0]
  IN IF lemma = "" THEN freqs
     ELSE (key :> [wordforms |-> old.wordforms \cup {lower(token.text)},
                   count |-> old.count + 1]) @@ freqs

\* the body of `for token in tokens` of the frequency builders
freq_token(freqs, token) ==
  IF ~isalpha(token.text) THEN freqs
  ELSE LET lemma == lower(strip(token.lemma))
           key == lemma_key(lemma, token.pos)
           old == IF key \in DOMAIN freqs THEN freqs[key]
                  ELSE [wordforms |-> {}, count |-> 0]
       IN IF lemma = "" THEN freqs
          ELSE (key :> [wordforms |-> old.wordforms \cup {lower(token.text)},
                        count |-> old.count + 1]) @@ freqs

\* `for token in tokens`; the accumulator is bound to its value before the
\* next iteration
RECURSIVE freq_tokens(_, _)
freq_tokens(freqs, tokens) ==
  IF tokens = << >> THEN freqs
  ELSE CHOOSE r \in { freq_tokens(f, Tail(tokens)) :
                        f \in {freq_token(freqs, Head(tokens))} } : TRUE

(***************************************************************************)
(* Concordance aggregation (second pass).                                  *)
(***************************************************************************)
\* (variant) only the lemma list is consulted
is_suppressed_lemma_only(key, pos, supp) == key \in supp.lemmas

\* (variant) the suppression file is read again for every token
is_suppressed_by_file(key, pos, supp) ==
  LET now == IF suppressions_file.tag = "json" THEN suppressions_file.data
             ELSE NoSuppressions
  IN key \in now.lemmas \/ pos \in now.pos

\* key in suppressions["lemmas"] or pos in suppressions["pos"]
is_suppressed(key, pos, supp) == key \in supp.lemmas \/ pos \in supp.pos

\* (variant) no check for an occurrence of the same segment
add_occurrence_every_token(occurrences, seg) ==
  Append(occurrences, [segment_id |-> seg.id, source_segment |-> seg.source])

\* (variant) a new occurrence is put in front of the list
add_occurrence_newest_first(occurrences, seg) ==
  IF \E i \in DOMAIN occurrences : occurrences[i].segment_id = seg.id
  THEN occurrences
  ELSE << [segment_id |-> seg.id, source_segment |-> seg.source] >> \o occurrences

\* the occurrence list after the segment has been offered to it
add_occurrence(occurrences, seg) ==
  IF \E i \in DOMAIN occurrences : occurrences[i].segment_id = seg.id
  THEN occurrences
  ELSE Append(occurrences, [segment_id |-> seg.id, source_segment |-> seg.source])

\* token["text"], token["lemma"], token["pos"]: KeyError for a dict without
\* "text", or an alphabetic one without "lemma" or "pos"
token_raises(token) ==
  \/ "text" \notin DOMAIN token
  \/ isalpha(token.text) /\ ~({"lemma", "pos"} \subseteq DOMAIN token)

\* the body of `for token in tokens` of the concordance builders
conc_token(lems, seg, token, supp) ==
  IF ~isalpha(token.text) THEN lems
  ELSE LET lemma == lower(strip(token.lemma))
           key == lemma_key(lemma, token.pos)
           old == IF key \in DOMAIN lems THEN lems[key]
                  ELSE [wordforms |-> {}, occurrences |-> << >>]
       IN IF lemma = "" \/ is_suppressed(key, token.pos, supp) THEN lems
          ELSE (key :> [wordforms |-> old.wordforms \cup {lower(token.text)},
                        occurrences |-> add_occurrence(old.occurrences, seg)]) @@ lems

\* `for token in tokens`; the accumulator is bound to its value before the
\* next iteration
RECURSIVE conc_tokens(_, _, _, _)
conc_tokens(lems, seg, tokens, supp) ==
  IF tokens = << >> THEN lems
  ELSE CHOOSE r \in { conc_tokens(l, seg, Tail(tokens), supp) :
                        l \in {conc_token(lems, seg, Head(tokens), supp)} } : TRUE

\* (variant) the merge visits only the keys the builder produced
merge_built_keys_only(freqs, lems) ==
  [key \in DOMAIN freqs \cap DOMAIN lems |->
     [wordforms |-> lems[key].wordforms, occurrences |-> lems[key].occurrences]]

\* (variant) the merge patches the previous Working Cache: a key the builder
\* did not produce keeps the entry it had
merge_patching_working(freqs, lems) ==
  [key \in DOMAIN freqs |->
     IF key \in DOMAIN lems
     THEN [wordforms |-> lems[key].wordforms, occurrences |-> lems[key].occurrences]
     ELSE IF working.tag = "json" /\ key \in DOMAIN working.data
     THEN working.data[key]
     ELSE [wordforms |-> freqs[key].wordforms, occurrences |-> << >>]]

\* (variant) the merge also writes the keys the builder found in the tokens
\* and the Master Cache lacks
merge_adding_built_keys(freqs, lems) ==
  [key \in DOMAIN freqs \cup DOMAIN lems |->
     IF key \in DOMAIN lems
     THEN [wordforms |-> lems[key].wordforms, occurrences |-> lems[key].occurrences]
     ELSE [wordforms |-> freqs[key].wordforms, occurrences |-> << >>]]

\* (variant) a key the builder did not produce gets no wordforms
merge_without_master_wordforms(freqs, lems) ==
  [key \in DOMAIN freqs |->
     IF key \in DOMAIN lems
     THEN [wordforms |-> lems[key].wordforms, occurrences |-> lems[key].occurrences]
     ELSE [wordforms |-> {}, occurrences |-> << >>]]

\* the merge against the Master Cache: one entry per Master Cache key
merge_with_master(freqs, lems) ==
  [key \in DOMAIN freqs |->
     IF key \in DOMAIN lems
     THEN [wordforms |-> lems[key].wordforms, occurrences |-> lems[key].occurrences]
     ELSE [wordforms |-> freqs[key].wordforms, occurrences |-> << >>]]

\* (variant) the persisted tokens are never used
has_usable_tokens_never(seg) == FALSE

\* seg.get("tokens"): a non-empty parsed list
has_usable_tokens(seg) == seg.tokens.has /\ seg.tokens.val # << >>

\* `for token in tokens` over the loaded list raises
tokens_raise(seg) == \E i \in DOMAIN seg.tokens.val : token_raises(seg.tokens.val[i])

\* (variant) no report for the last index unless the interval falls on it
report_due_on_interval_only(i, total_segments) ==
  LET report_interval == IF total_segments \div 100 > 1 THEN total_segments \div 100 ELSE 1
  IN i % report_interval = 0

\* progress is reported for this loop index
report_due(i, total_segments) ==
  LET report_interval == IF total_segments \div 100 > 1 THEN total_segments \div 100 ELSE 1
  IN i % report_interval = 0 \/ i = total_segments - 1

(***************************************************************************)
(* Events of the stream (app.py).  A progress event carries no status key  *)
(* in the program; "progress" is the model's tag for it.                   *)
(***************************************************************************)
\* current / total_items: the double nearest to the quotient (ties to even),
\* for 0 < current <= total_items < 2^13.  The double is s and the three
\* limbs of its 53-bit significand: (hi*2^34 + mid*2^17 + lo) * 2^(-52-s).
true_divide(current, total_items) ==
  LET s == CHOOSE n \in 0..13 :
             /\ current * 2^n >= total_items
             /\ n = 0 \/ current * 2^(n - 1) < total_items
      r0 == current * 2^s - total_items
      d1 == (r0 * 2^18) \div total_items
      r1 == (r0 * 2^18) % total_items
      d2 == (r1 * 2^17) \div total_items
      r2 == (r1 * 2^17) % total_items
      d3 == (r2 * 2^17) \div total_items
      r3 == (r2 * 2^17) % total_items
      up == 2 * r3 > total_items \/ (2 * r3 = total_items /\ d3 % 2 = 1)
      lo == IF up THEN d3 + 1 ELSE d3
      mid == IF lo = 2^17 THEN d2 + 1 ELSE d2
      hi == IF mid = 2^17 THEN 2^18 + d1 + 1 ELSE 2^18 + d1
  IN [s |-> s, hi |-> hi, mid |-> mid % 2^17, lo |-> lo % 2^17]

\* q * 100: the exact product (25 * 4) rounded to 53 bits, ties to even;
\* the result is (hi*2^34 + mid*2^17 + lo) * 2^(-50-s)
float_times_100(q) ==
  LET x3 == q.lo * 25
      x2 == q.mid * 25 + x3 \div 2^17
      n1 == q.hi * 25 + x2 \div 2^17
      n2 == x2 % 2^17
      n3 == x3 % 2^17
      k == IF n1 >= 32 * 2^18 THEN 5 ELSE 4
      low == n3 % 2^k
      kept == n3 \div 2^k
      up == low > 2^(k - 1) \/ (low = 2^(k - 1) /\ kept % 2 = 1)
      lo == kept * 2^k + (IF up THEN 2^k ELSE 0)
      mid == IF lo = 2^17 THEN n2 + 1 ELSE n2
      hi == IF mid = 2^17 THEN n1 + 1 ELSE n1
  IN [s |-> q.s, hi |-> hi, mid |-> mid % 2^17, lo |-> lo % 2^17]

\* int(x): the integer part of the product
int_of_float(x) == x.hi \div 2^(16 + x.s)

\* int((current / total_items) * 100) if total_items > 0 else 0
percent_of(current, total_items) ==
  IF total_items > 0 /\ current > 0
  THEN int_of_float(float_times_100(true_divide(current, total_items)))
  ELSE 0

started_event(total) == [status |-> "started", total_segments |-> total]

\* the event progress_callback yields; message is the kind of the text the
\* builder passes ("Processing source file: ...", "Saving frequency data...")
progress_callback(current, total_items, message) ==
  [status |-> "progress", current |-> current, total |-> total_items,
   percent |-> percent_of(current, total_items), message |-> message]

error_event == [status |-> "error"]

frequencies_complete_event == [status |-> "complete"]

(***************************************************************************)
(* extract_lemma_frequencies_generator, one resumption at a time.          *)
(***************************************************************************)
\* get_segment_files_map: {} when the file is missing or unreadable
get_segment_files_map == IF segment_files.tag = "json" THEN segment_files.data ELSE EmptyMap

\* segment_files_map.get(seg["id"], "unknown")
source_file_of(map, seg) == IF seg.id \in DOMAIN map THEN map[seg.id] ELSE "unknown"

TickItem(current, total) == [op |-> "tick", current |-> current, total |-> total, id |-> "", source |-> ""]
SegItem(seg) == [op |-> "seg", current |-> 0, total |-> 0, id |-> seg.id, source |-> seg.source]

RECURSIVE Concat(_)
Concat(ss) == IF ss = << >> THEN << >> ELSE Head(ss) \o Concat(Tail(ss))

\* the order in which the grouped loops visit the segments
grouped_segments(segs, map) ==
  LET sorted_files == sorted({ source_file_of(map, segs[i]) : i \in DOMAIN segs })
  IN Concat([k \in DOMAIN sorted_files |->
               SelectSeq(segs, LAMBDA s : source_file_of(map, s) = sorted_files[k])])

\* (variant) progress is reported before every segment
frequency_plan_tick_per_segment(segs, map) ==
  LET sorted_files == sorted({ source_file_of(map, segs[i]) : i \in DOMAIN segs })
      total_files == Len(sorted_files)
      file_segments(f) == SelectSeq(segs, LAMBDA s : source_file_of(map, s) = f)
  IN Concat([k \in DOMAIN sorted_files |->
               Concat([j \in DOMAIN file_segments(sorted_files[k]) |->
                         << TickItem(k, total_files),
                            SegItem(file_segments(sorted_files[k])[j]) >>])])

\* the grouped loops of the progress-reporting branch: per source file, in
\* sorted order, one tick and then the file's segments
frequency_plan(segs, map) ==
  LET sorted_files == sorted({ source_file_of(map, segs[i]) : i \in DOMAIN segs })
      total_files == Len(sorted_files)
      file_segments(f) == SelectSeq(segs, LAMBDA s : source_file_of(map, s) = f)
  IN Concat([k \in DOMAIN sorted_files |->
               << TickItem(k, total_files) >>
               \o [j \in DOMAIN file_segments(sorted_files[k]) |->
                     SegItem(file_segments(sorted_files[k])[j])]])

\* total_files, as the "Saving frequency data..." tick reports it
total_files_of(segs, map) ==
  Cardinality({ source_file_of(map, segs[i]) : i \in DOMAIN segs })

\* (variant) the cache check never hits
master_cache_hit_never(mst) == FALSE

\* the cache check of the frequency builders: the file exists and json.load
\* succeeds (a parse failure falls through to the rebuild)
master_cache_hit(mst) == exists(mst) /\ mst.tag = "json"

\* where control goes when the frequency generator returns
after_frequencies == IF kind = "conc_stream" THEN "c_load" ELSE "s_complete"

\* (variant) the error event is yielded and the stream goes on to its end
Raise_then_complete ==
  /\ events' = Append(events, error_event)
  /\ pc' = "s_complete"

\* (variant) the exception ends the stream without an event
Raise_without_event ==
  /\ events' = events
  /\ pc' = "done"

\* the stream's except clause: one error event, and the stream ends
Raise ==
  /\ events' = Append(events, error_event)
  /\ pc' = "done"

\* entry: the cache check
FreqCheckCache ==
  /\ pc = "f_check"
  /\ IF master_cache_hit(master)
     THEN /\ events' = Append(events, progress_callback(1, 1, "cached"))
          /\ pc' = after_frequencies
          /\ UNCHANGED << frequencies, todo >>
     ELSE /\ frequencies' = EmptyMap
          /\ todo' = frequency_plan(segments, get_segment_files_map)
          /\ pc' = "f_loop"
          /\ UNCHANGED events
  /\ UNCHANGED << files, kind, force, segments, suppressions, master_read,
                  segments_with_tokens, lemmas, idx, status_code, response, request, writers, annot_log, store0, master0, working0 >>

\* the per-file progress tick
FreqFileTick ==
  /\ pc = "f_loop"
  /\ todo # << >>
  /\ Head(todo).op = "tick"
  /\ events' = Append(events, progress_callback(Head(todo).current, Head(todo).total, "file"))
  /\ todo' = Tail(todo)
  /\ UNCHANGED << files, pc, kind, force, segments, suppressions, frequencies, master_read,
                  segments_with_tokens, lemmas, idx, status_code, response, request, writers, annot_log, store0, master0, working0 >>

\* whether the unit holds a well-formed token property
has_persisted_tokens(st, segment_id) ==
  \E i \in DOMAIN st :
    /\ st[i].id = segment_id
    /\ tokens_prop(st[i]).tag = "json"
    /\ is_token_list(json_loads(tokens_prop(st[i]).val))

\* (variant) the Master Cache is rewritten after every segment
FreqSegment_writes_through ==
  /\ pc = "f_loop"
  /\ todo # << >>
  /\ Head(todo).op = "seg"
  /\ annot_log' = Append(annot_log, [id |-> Head(todo).id,
                                     memoized |-> has_persisted_tokens(store, Head(todo).id)])
  /\ IF nlp_raises(Head(todo).source)
     THEN /\ Raise
          /\ UNCHANGED << store, master, frequencies, todo >>
     ELSE /\ store' = tokenize_and_store_segment(store, Head(todo).id, Head(todo).source)
          /\ frequencies' = freq_tokens(frequencies, tokenize(Head(todo).source))
          /\ master' = Json(frequencies')
          /\ todo' = Tail(todo)
          /\ UNCHANGED << pc, events >>
  /\ UNCHANGED << segment_files, working, suppressions_file, kind, force, segments,
                  suppressions, master_read, segments_with_tokens, lemmas, idx,
                  status_code, response, request, writers, store0, master0, working0 >>

\* one segment of the loop: annotate, write back, count
FreqSegment ==
  /\ pc = "f_loop"
  /\ todo # << >>
  /\ Head(todo).op = "seg"
  /\ annot_log' = Append(annot_log, [id |-> Head(todo).id,
                                     memoized |-> has_persisted_tokens(store, Head(todo).id)])
  /\ IF nlp_raises(Head(todo).source)
     THEN /\ Raise
          /\ UNCHANGED << store, frequencies, todo >>
     ELSE /\ store' = tokenize_and_store_segment(store, Head(todo).id, Head(todo).source)
          /\ frequencies' = freq_tokens(frequencies, tokenize(Head(todo).source))
          /\ todo' = Tail(todo)
          /\ UNCHANGED << pc, events >>
  /\ UNCHANGED << segment_files, master, working, suppressions_file, kind, force, segments,
                  suppressions, master_read, segments_with_tokens, lemmas, idx,
                  status_code, response, request, writers, store0, master0, working0 >>

\* after the loops: the "Saving frequency data..." tick
FreqSaveTick ==
  /\ pc = "f_loop"
  /\ todo = << >>
  /\ LET n == total_files_of(segments, get_segment_files_map)
     IN events' = Append(events, progress_callback(n, n, "saving"))
  /\ pc' = "f_write"
  /\ UNCHANGED << files, locals, status_code, response, request, writers, annot_log, store0, master0, working0 >>

\* json.dump(to_save) into lemmas_master.json
FreqWrite ==
  /\ pc = "f_write"
  /\ master' = Json(frequencies)
  /\ pc' = after_frequencies
  /\ UNCHANGED << store, segment_files, working, suppressions_file, locals, history >>

(***************************************************************************)
(* extract_frequencies_stream.generate (app.py).                           *)
(***************************************************************************)
\* (variant) force does not remove the file
forced_delete_skipped(f, mst) == mst

\* (variant) the file is removed whether or not force is set
forced_delete_whenever_found(f, mst) == IF exists(mst) THEN Absent ELSE mst

\* if force: os.remove(master_file) when it exists
forced_delete(f, mst) == IF f /\ exists(mst) THEN Absent ELSE mst

\* the handler was cut short: the server closed the generator at a yield
\* (the client went away), or the process was killed
Interrupted == pc \in {"closed", "killed"}

\* a request starts when no handler runs; after an interruption the same
\* request may be made again
MayStart(k, f) == pc = "idle" \/ (Interrupted /\ kind = k /\ force = f)

\* the files as they are when a request is first made (kept over a retry)
Snapshot ==
  /\ store0' = IF Interrupted THEN store0 ELSE store
  /\ master0' = IF Interrupted THEN master0 ELSE master
  /\ working0' = IF Interrupted THEN working0 ELSE working

\* everything up to the started event; fault is the I/O step that raises
FreqStreamStart(f, fault) ==
  /\ MayStart("freq_stream", f)
  /\ fault = "remove" => (f /\ exists(master))
  /\ kind' = "freq_stream"
  /\ force' = f
  /\ Snapshot
  /\ annot_log' = << >>
  /\ master' = IF fault = "remove" THEN master ELSE forced_delete(f, master)
  /\ IF fault = "none"
     THEN /\ segments' = load_segments(store, FALSE)
          /\ events' = << started_event(Len(store)) >>
          /\ pc' = "f_check"
     ELSE /\ segments' = << >>
          /\ events' = << error_event >>
          /\ pc' = "done"
  /\ UNCHANGED << store, segment_files, working, suppressions_file, suppressions,
                  frequencies, todo, master_read, segments_with_tokens, lemmas, idx,
                  status_code, response, request, writers >>

\* the final event of the frequency stream
FreqStreamComplete ==
  /\ pc = "s_complete"
  /\ kind = "freq_stream"
  /\ events' = Append(events, frequencies_complete_event)
  /\ pc' = "done"
  /\ UNCHANGED << files, locals, status_code, response, request, writers, annot_log, store0, master0, working0 >>

(***************************************************************************)
(* build_concordances_stream.generate and                                  *)
(* build_working_concordances_generator.                                   *)
(***************************************************************************)
\* get_suppressions: the default when the file is missing or unreadable
get_suppressions == IF suppressions_file.tag = "json" THEN suppressions_file.data ELSE NoSuppressions

\* (variant) the counts are taken from the builder's accumulator, not from
\* the file
concordances_complete_event_of_accumulator(lems) ==
  [status |-> "complete", total_lemmas |-> Cardinality(DOMAIN lemmas),
   with_concordances |-> Cardinality({ k \in DOMAIN lemmas : lemmas[k].occurrences # << >> })]

concordances_complete_event(lems) ==
  [status |-> "complete", total_lemmas |-> Cardinality(DOMAIN lems),
   with_concordances |-> Cardinality({ k \in DOMAIN lems : lems[k].occurrences # << >> })]

\* everything up to the started event; fault is the I/O step that raises
ConcStreamStart(fault) ==
  /\ MayStart("conc_stream", FALSE)
  /\ kind' = "conc_stream"
  /\ Snapshot
  /\ annot_log' = << >>
  /\ suppressions' = get_suppressions
  /\ IF fault = "none"
     THEN /\ segments' = load_segments(store, FALSE)
          /\ events' = << started_event(Len(store)) >>
          /\ pc' = "c_entry"
     ELSE /\ segments' = << >>
          /\ events' = << error_event >>
          /\ pc' = "done"
  /\ UNCHANGED << files, force, frequencies, todo, master_read, segments_with_tokens,
                  lemmas, idx, status_code, response, request, writers >>

\* (variant) the generator goes straight to reading the Master Cache
ConcEntry_assumes_master ==
  /\ pc = "c_entry"
  /\ pc' = "c_load"
  /\ UNCHANGED << files, locals, history >>

\* entry of the generator: build the Master Cache first when it is missing
ConcEntry ==
  /\ pc = "c_entry"
  /\ pc' = IF ~exists(master) THEN "f_check" ELSE "c_load"
  /\ UNCHANGED << files, locals, history >>

\* read the Master Cache, reload the store with tokens
ConcLoad ==
  /\ pc = "c_load"
  /\ IF master.tag = "json"
     THEN /\ master_read' = master.data
          /\ segments_with_tokens' = load_segments(store, TRUE)
          /\ lemmas' = EmptyMap
          /\ idx' = 0
          /\ pc' = "c_loop"
          /\ UNCHANGED events
     ELSE /\ Raise
          /\ UNCHANGED << master_read, segments_with_tokens, lemmas, idx >>
  /\ UNCHANGED << files, kind, force, segments, suppressions, frequencies, todo,
                  status_code, response, request, writers, annot_log, store0, master0, working0 >>

\* one iteration of the segment loop: the tick when due, the tokens
\* (memoized, else annotated and written back), the occurrences
ConcSegment ==
  /\ pc = "c_loop"
  /\ idx < Len(segments_with_tokens)
  /\ LET seg == segments_with_tokens[idx + 1]
         total_segments == Len(segments_with_tokens)
         ticked == IF report_due(idx, total_segments)
                   THEN Append(events, progress_callback(idx + 1, total_segments, "segment"))
                   ELSE events
     IN IF has_usable_tokens(seg) /\ tokens_raise(seg)
        THEN /\ events' = Append(ticked, error_event)
             /\ pc' = "done"
             /\ UNCHANGED << store, annot_log, lemmas, idx >>
        ELSE IF has_usable_tokens(seg)
        THEN /\ events' = ticked
             /\ lemmas' = conc_tokens(lemmas, seg, seg.tokens.val, suppressions)
             /\ idx' = idx + 1
             /\ UNCHANGED << store, annot_log, pc >>
        ELSE /\ annot_log' = Append(annot_log, [id |-> seg.id,
                                                memoized |-> has_persisted_tokens(store, seg.id)])
             /\ IF nlp_raises(seg.source)
                THEN /\ events' = Append(ticked, error_event)
                     /\ pc' = "done"
                     /\ UNCHANGED << store, lemmas, idx >>
                ELSE /\ events' = ticked
                     /\ store' = tokenize_and_store_segment(store, seg.id, seg.source)
                     /\ lemmas' = conc_tokens(lemmas, seg, tokenize(seg.source), suppressions)
                     /\ idx' = idx + 1
                     /\ UNCHANGED pc
  /\ UNCHANGED << segment_files, master, working, suppressions_file, kind, force, segments,
                  suppressions, frequencies, todo, master_read, segments_with_tokens,
                  status_code, response, request, writers, store0, master0, working0 >>

\* after the loop: the "Finalizing concordances..." tick
ConcFinalTick ==
  /\ pc = "c_loop"
  /\ idx = Len(segments_with_tokens)
  /\ events' = Append(events, progress_callback(idx, idx, "finalizing"))
  /\ pc' = "c_write"
  /\ UNCHANGED << files, locals, status_code, response, request, writers, annot_log, store0, master0, working0 >>

\* the merge and json.dump(working_lemmas) into lemmas.json
ConcWrite ==
  /\ pc = "c_write"
  /\ working' = Json(merge_with_master(master_read, lemmas))
  /\ pc' = "s_complete"
  /\ UNCHANGED << store, segment_files, master, suppressions_file, locals, history >>

\* the final event of the concordance stream: counts read back from lemmas.json
ConcStreamComplete ==
  /\ pc = "s_complete"
  /\ kind = "conc_stream"
  /\ IF working.tag = "json"
     THEN events' = Append(events, concordances_complete_event(working.data))
     ELSE events' = Append(events, error_event)
  /\ pc' = "done"
  /\ UNCHANGED << files, locals, status_code, response, request, writers, annot_log, store0, master0, working0 >>

(***************************************************************************)
(* The end of a stream whose consumer went away, and of a killed process.  *)
(* The server closes the response iterator when it cannot write to the     *)
(* client: GeneratorExit is raised at the yield the generator is suspended *)
(* at, `except Exception` does not catch it, and nothing after that yield  *)
(* runs.                                                                   *)
(***************************************************************************)
\* the generator is suspended at a yield: after the started event, after a
\* progress event of the frequency builder, or at the progress event that
\* opens an iteration of the concordance loop
AtYield ==
  \/ pc = "c_entry"
  \/ pc = "f_check" /\ kind = "freq_stream"
  \/ /\ pc = "f_loop"
     /\ LET plan == frequency_plan(segments, get_segment_files_map)
        IN \E j \in DOMAIN plan :
             plan[j].op = "tick" /\ todo = SubSeq(plan, j + 1, Len(plan))
  \/ pc = "f_write"
  \/ /\ pc = "c_loop"
     /\ idx < Len(segments_with_tokens)
     /\ report_due(idx, Len(segments_with_tokens))
  \/ pc = "c_write"
  \/ /\ pc = "s_complete"
     /\ kind = "freq_stream"
     /\ events[Len(events)].status = "progress"
     /\ events[Len(events)].message = "cached"

\* the handler's frame is dropped; the files stay as they are
Dropped(how) ==
  /\ pc' = how
  /\ segments' = << >>
  /\ frequencies' = EmptyMap
  /\ todo' = << >>
  /\ master_read' = EmptyMap
  /\ segments_with_tokens' = << >>
  /\ lemmas' = EmptyMap
  /\ idx' = 0
  /\ UNCHANGED << files, kind, force, suppressions, history >>

\* the client disconnects: generator.close() at the current yield
Disconnect ==
  /\ AtYield
  /\ Dropped("closed")

\* the process dies between two steps
Crash ==
  /\ pc \notin {"idle", "done", "closed", "killed"}
  /\ Dropped("killed")

(***************************************************************************)
(* The legacy (non-streaming) builders, as the routes call them: without   *)
(* a progress callback.  Each result is the outcome of the whole call:     *)
(* ok is FALSE when an exception left it.                                  *)
(***************************************************************************)
LogEntry(st, segment_id) == [id |-> segment_id, memoized |-> has_persisted_tokens(st, segment_id)]

\* `for seg in segments` of extract_lemma_frequencies
RECURSIVE frequency_loop(_, _, _, _)
frequency_loop(st, freqs, log, segs) ==
  IF segs = << >> THEN [ok |-> TRUE, store |-> st, frequencies |-> freqs, log |-> log]
  ELSE LET seg == Head(segs)
           log2 == Append(log, LogEntry(st, seg.id))
       IN IF nlp_raises(seg.source)
          THEN [ok |-> FALSE, store |-> st, frequencies |-> freqs, log |-> log2]
          ELSE frequency_loop(tokenize_and_store_segment(st, seg.id, seg.source),
                              freq_tokens(freqs, tokenize(seg.source)), log2, Tail(segs))

extract_lemma_frequencies(st, mst, segs) ==
  IF master_cache_hit(mst)
  THEN [ok |-> TRUE, store |-> st, master |-> mst, log |-> << >>]
  ELSE LET r == frequency_loop(st, EmptyMap, << >>, segs)
       IN [ok |-> r.ok, store |-> r.store, log |-> r.log,
           master |-> IF r.ok THEN Json(r.frequencies) ELSE mst]

\* `for idx, seg in enumerate(segments_with_tokens)` of build_working_concordances
RECURSIVE concordance_loop(_, _, _, _, _)
concordance_loop(st, lems, log, segs, supp) ==
  IF segs = << >> THEN [ok |-> TRUE, store |-> st, lemmas |-> lems, log |-> log]
  ELSE LET seg == Head(segs)
       IN IF has_usable_tokens(seg) /\ tokens_raise(seg)
          THEN [ok |-> FALSE, store |-> st, lemmas |-> lems, log |-> log]
          ELSE IF has_usable_tokens(seg)
          THEN concordance_loop(st, conc_tokens(lems, seg, seg.tokens.val, supp), log,
                                Tail(segs), supp)
          ELSE IF nlp_raises(seg.source)
          THEN [ok |-> FALSE, store |-> st, lemmas |-> lems,
                log |-> Append(log, LogEntry(st, seg.id))]
          ELSE concordance_loop(tokenize_and_store_segment(st, seg.id, seg.source),
                                conc_tokens(lems, seg, tokenize(seg.source), supp),
                                Append(log, LogEntry(st, seg.id)), Tail(segs), supp)

build_working_concordances(st, mst, wrk, segs, supp) ==
  LET f == IF ~exists(mst) THEN extract_lemma_frequencies(st, mst, segs)
           ELSE [ok |-> TRUE, store |-> st, master |-> mst, log |-> << >>]
      c == concordance_loop(f.store, EmptyMap, f.log, load_segments(f.store, TRUE), supp)
  IN IF ~f.ok \/ f.master.tag # "json"
     THEN [ok |-> FALSE, store |-> f.store, master |-> f.master, working |-> wrk, log |-> f.log]
     ELSE [ok |-> c.ok, store |-> c.store, master |-> f.master, log |-> c.log,
           working |-> IF c.ok THEN Json(merge_with_master(f.master.data, c.lemmas)) ELSE wrk]

\* the build_concordances route: 200 with the counts, 500 on any exception
BuildConcordances ==
  /\ pc = "idle"
  /\ LET r == build_working_concordances(store, master, working,
                                         load_segments(store, FALSE), get_suppressions)
     IN /\ store' = r.store
        /\ master' = r.master
        /\ working' = r.working
        /\ annot_log' = r.log
        /\ status_code' = IF r.ok THEN 200 ELSE 500
  /\ response' = NoResponse
  /\ UNCHANGED << request, writers >>
  /\ kind' = "build_concordances"
  /\ suppressions' = get_suppressions
  /\ pc' = "done"
  /\ store0' = store
  /\ master0' = master
  /\ working0' = working
  /\ UNCHANGED << segment_files, suppressions_file, force, segments, frequencies, todo,
                  master_read, segments_with_tokens, lemmas, idx, events >>

\* the load_project route, through extract_lemmas: the Working Cache when it
\* parses, else the frequencies (built when the Master Cache does not parse)
LoadProject ==
  /\ pc = "idle"
  /\ LET r == IF exists(working) /\ working.tag = "json"
              THEN [ok |-> TRUE, store |-> store, master |-> master, log |-> << >>]
              ELSE extract_lemma_frequencies(store, master, load_segments(store, TRUE))
     IN /\ store' = r.store
        /\ master' = r.master
        /\ annot_log' = r.log
        /\ status_code' = IF r.ok THEN 200 ELSE 500
  /\ response' = NoResponse
  /\ UNCHANGED << request, writers >>
  /\ kind' = "load_project"
  /\ pc' = "done"
  /\ store0' = store
  /\ master0' = master
  /\ working0' = working
  /\ UNCHANGED << segment_files, working, suppressions_file, force, segments, suppressions,
                  frequencies, todo, master_read, segments_with_tokens, lemmas, idx, events >>

(***************************************************************************)
(* The legacy builders called with a progress callback, and what the       *)
(* generators have written once a consumer has drained them.               *)
(***************************************************************************)
\* token["upos"] in the progress-reporting branch of extract_lemma_frequencies:
\* KeyError at the first alphabetic token that has no such key
upos_raises(tokens) ==
  \E i \in DOMAIN tokens : isalpha(tokens[i].text) /\ "upos" \notin DOMAIN tokens[i]

\* the grouped loops of extract_lemma_frequencies with a callback, over the
\* segments in the order the loops visit them
RECURSIVE frequency_loop_with_callback(_, _, _, _)
frequency_loop_with_callback(st, freqs, log, segs) ==
  IF segs = << >> THEN [ok |-> TRUE, store |-> st, frequencies |-> freqs, log |-> log]
  ELSE LET seg == Head(segs)
           log2 == Append(log, LogEntry(st, seg.id))
       IN IF nlp_raises(seg.source)
          THEN [ok |-> FALSE, store |-> st, frequencies |-> freqs, log |-> log2]
          ELSE IF upos_raises(tokenize(seg.source))
          THEN [ok |-> FALSE, store |-> tokenize_and_store_segment(st, seg.id, seg.source),
                frequencies |-> freqs, log |-> log2]
          ELSE frequency_loop_with_callback(
                 tokenize_and_store_segment(st, seg.id, seg.source), freqs, log2, Tail(segs))

\* extract_lemma_frequencies(segments, project_path, progress_callback)
extract_lemma_frequencies_with_callback(st, mst, segs, map) ==
  IF master_cache_hit(mst)
  THEN [ok |-> TRUE, store |-> st, master |-> mst, log |-> << >>]
  ELSE LET r == frequency_loop_with_callback(st, EmptyMap, << >>, grouped_segments(segs, map))
       IN [ok |-> r.ok, store |-> r.store, log |-> r.log,
           master |-> IF r.ok THEN Json(r.frequencies) ELSE mst]

\* extract_lemma_frequencies_generator(segments, project_path,
\* progress_callback), drained: the grouped loops, then the write
drained_frequencies_generator(st, mst, segs, map) ==
  IF master_cache_hit(mst)
  THEN [ok |-> TRUE, store |-> st, master |-> mst, log |-> << >>]
  ELSE LET r == frequency_loop(st, EmptyMap, << >>, grouped_segments(segs, map))
       IN [ok |-> r.ok, store |-> r.store, log |-> r.log,
           master |-> IF r.ok THEN Json(r.frequencies) ELSE mst]

\* the concordance builders from json.load(master_file) on; f is the outcome
\* of the frequency pass that ran when there was no Master Cache
concordance_pass(f, wrk, supp) ==
  LET c == concordance_loop(f.store, EmptyMap, f.log, load_segments(f.store, TRUE), supp)
  IN IF ~f.ok \/ f.master.tag # "json"
     THEN [ok |-> FALSE, store |-> f.store, master |-> f.master, working |-> wrk, log |-> f.log]
     ELSE [ok |-> c.ok, store |-> c.store, master |-> f.master, log |-> c.log,
           working |-> IF c.ok THEN Json(merge_with_master(f.master.data, c.lemmas)) ELSE wrk]

\* build_working_concordances(project_path, segments, suppressions,
\* progress_callback)
build_working_concordances_with_callback(st, mst, wrk, segs, supp, map) ==
  concordance_pass(IF ~exists(mst)
                   THEN extract_lemma_frequencies_with_callback(st, mst, segs, map)
                   ELSE [ok |-> TRUE, store |-> st, master |-> mst, log |-> << >>],
                   wrk, supp)

\* build_working_concordances_generator(project_path, segments, suppressions,
\* progress_callback), drained
drained_concordances_generator(st, mst, wrk, segs, supp, map) ==
  concordance_pass(IF ~exists(mst)
                   THEN drained_frequencies_generator(st, mst, segs, map)
                   ELSE [ok |-> TRUE, store |-> st, master |-> mst, log |-> << >>],
                   wrk, supp)

\* a caller of extract_lemma_frequencies, with or without a callback
ExtractLemmaFrequencies(callback) ==
  /\ pc = "idle"
  /\ LET segs == load_segments(store, FALSE)
         r == IF callback
              THEN extract_lemma_frequencies_with_callback(store, master, segs,
                                                           get_segment_files_map)
              ELSE extract_lemma_frequencies(store, master, segs)
     IN /\ segments' = segs
        /\ store' = r.store
        /\ master' = r.master
        /\ annot_log' = r.log
        /\ status_code' = IF r.ok THEN 200 ELSE 500
  /\ kind' = IF callback THEN "extract_lemma_frequencies(progress_callback)"
             ELSE "extract_lemma_frequencies"
  /\ pc' = "done"
  /\ response' = NoResponse
  /\ store0' = store
  /\ master0' = master
  /\ working0' = working
  /\ UNCHANGED << segment_files, working, suppressions_file, force, suppressions,
                  frequencies, todo, master_read, segments_with_tokens, lemmas, idx,
                  events, request, writers >>

\* a caller of build_working_concordances, with or without a callback
BuildWorkingConcordances(callback) ==
  /\ pc = "idle"
  /\ LET segs == load_segments(store, FALSE)
         r == IF callback
              THEN build_working_concordances_with_callback(
                     store, master, working, segs, get_suppressions, get_segment_files_map)
              ELSE build_working_concordances(store, master, working, segs, get_suppressions)
     IN /\ segments' = segs
        /\ store' = r.store
        /\ master' = r.master
        /\ working' = r.working
        /\ annot_log' = r.log
        /\ status_code' = IF r.ok THEN 200 ELSE 500
  /\ kind' = IF callback THEN "build_working_concordances(progress_callback)"
             ELSE "build_working_concordances"
  /\ suppressions' = get_suppressions
  /\ pc' = "done"
  /\ response' = NoResponse
  /\ store0' = store
  /\ master0' = master
  /\ working0' = working
  /\ UNCHANGED << segment_files, suppressions_file, force, frequencies, todo, master_read,
                  segments_with_tokens, lemmas, idx, events, request, writers >>

\* (variant) an entry without occurrences is answered as not found
lemma_data_missing_or_empty(lems, key) ==
  key \notin DOMAIN lems \/ lems[key].occurrences = << >>

\* not lemmas.get(lemma_key): the key is not in the cache (an entry the
\* builders write has two fields and is never an empty dict)
lemma_data_missing(lems, key) == key \notin DOMAIN lems

\* the keys a client asks for: in the corpus, of a suppressible POS, unknown
LookupKeys == {"katt|NOUN", "lope|VERB", "ukjent|NOUN"}

\* get_lemma_concordances: 404 without lemmas.json or without the key, 500
\* when the file does not parse, else the stored occurrence list
GetLemmaConcordances(key) ==
  /\ pc = "idle"
  /\ kind' = "get_lemma_concordances"
  /\ IF ~exists(working)
     THEN /\ status_code' = 404
          /\ response' = [lemma_key |-> key, occurrences |-> << >>]
     ELSE IF working.tag # "json"
     THEN /\ status_code' = 500
          /\ response' = [lemma_key |-> key, occurrences |-> << >>]
     ELSE IF lemma_data_missing(working.data, key)
     THEN /\ status_code' = 404
          /\ response' = [lemma_key |-> key, occurrences |-> << >>]
     ELSE /\ status_code' = 200
          /\ response' = [lemma_key |-> key,
                          occurrences |-> working.data[key].occurrences]
  /\ pc' = "done"
  /\ annot_log' = << >>
  /\ UNCHANGED << request, writers >>
  /\ store0' = store
  /\ master0' = master
  /\ working0' = working
  /\ UNCHANGED << files, force, segments, suppressions, frequencies, todo, master_read,
                  segments_with_tokens, lemmas, idx, events >>

\* what a read handler leaves alone, and the snapshot every handler takes
ReadOnly ==
  /\ pc' = "done"
  /\ annot_log' = << >>
  /\ store0' = store
  /\ master0' = master
  /\ working0' = working
  /\ UNCHANGED << files, force, segments, suppressions, frequencies, todo, master_read,
                  segments_with_tokens, lemmas, idx, events, request, writers >>

\* the body lemma_frequencies answers: per POS tag the entries {lemma_key,
\* lemma, frequency} of the Master Cache (a list sorted by falling frequency,
\* kept here as the set of its entries), and the suppressions
pos_groups(freqs) ==
  [pos \in { split(key, "|")[2] : key \in DOMAIN freqs } |->
     { [lemma_key |-> key, lemma |-> split(key, "|")[1], frequency |-> freqs[key].count] :
         key \in { k \in DOMAIN freqs : split(k, "|")[2] = pos } }]

\* (variant) the frequencies are extracted when the Master Cache is missing
LemmaFrequencies_extracts_when_missing ==
  /\ pc = "idle"
  /\ kind' = "lemma_frequencies"
  /\ LET r == extract_lemma_frequencies(store, master, load_segments(store, FALSE))
     IN /\ store' = r.store
        /\ master' = r.master
        /\ annot_log' = r.log
        /\ status_code' = IF r.ok /\ r.master.tag = "json" THEN 200 ELSE 500
        /\ response' = IF r.ok /\ r.master.tag = "json"
                       THEN [pos_groups |-> pos_groups(r.master.data),
                             suppressions |-> get_suppressions]
                       ELSE [error |-> "Failed to load frequencies"]
  /\ pc' = "done"
  /\ store0' = store
  /\ master0' = master
  /\ working0' = working
  /\ UNCHANGED << segment_files, working, suppressions_file, force, segments, suppressions,
                  frequencies, todo, master_read, segments_with_tokens, lemmas, idx, events,
                  request, writers >>

\* lemma_frequencies: 404 without lemmas_master.json, 500 when it does not
\* parse or a key has no "|", else the entries grouped by POS tag
LemmaFrequencies ==
  /\ pc = "idle"
  /\ kind' = "lemma_frequencies"
  /\ IF ~exists(master)
     THEN /\ status_code' = 404
          /\ response' = [error |-> "Frequencies not extracted yet. Please extract first."]
     ELSE IF master.tag # "json"
     THEN /\ status_code' = 500
          /\ response' = [error |-> "Failed to load frequencies"]
     ELSE IF \E key \in DOMAIN master.data : Len(split(key, "|")) < 2
     THEN /\ status_code' = 500
          /\ response' = [error |-> "IndexError"]
     ELSE /\ status_code' = 200
          /\ response' = [pos_groups |-> pos_groups(master.data),
                          suppressions |-> get_suppressions]
  /\ ReadOnly

\* concordance_status: built=false and has_master without lemmas.json, 500
\* when it does not parse, else built=true and the counts
ConcordanceStatus ==
  /\ pc = "idle"
  /\ kind' = "concordance_status"
  /\ IF ~exists(working)
     THEN /\ status_code' = 200
          /\ response' = [built |-> FALSE, has_master |-> exists(master)]
     ELSE IF working.tag # "json"
     THEN /\ status_code' = 500
          /\ response' = [error |-> "JSONDecodeError"]
     ELSE /\ status_code' = 200
          /\ response' =
               [built |-> TRUE,
                total_lemmas |-> Cardinality(DOMAIN working.data),
                with_concordances |->
                  Cardinality({ k \in DOMAIN working.data :
                                  working.data[k].occurrences # << >> })]
  /\ ReadOnly

\* the update_segment route; now is datetime.utcnow()
UpdateTarget(id, text, now) ==
  /\ pc = "idle"
  /\ kind' = "update_segment"
  /\ request' = [segment_id |-> id, target_text |-> text]
  /\ store' = update_target_segment(store, id, text, now)
  /\ status_code' = 200
  /\ response' = NoResponse
  /\ annot_log' = << >>
  /\ pc' = "done"
  /\ store0' = store
  /\ master0' = master
  /\ working0' = working
  /\ UNCHANGED << segment_files, master, working, suppressions_file, force, segments,
                  suppressions, frequencies, todo, master_read, segments_with_tokens,
                  lemmas, idx, events, writers >>

\* save_suppressions_route
SaveSuppressions(s) ==
  /\ suppressions_file # Json(s)
  /\ suppressions_file' = Json(s)
  /\ UNCHANGED << store, segment_files, master, working, pc, locals, history >>

\* the response has been delivered; the handler's frame is gone
Finish ==
  /\ pc = "done" \/ Interrupted
  /\ pc' = "idle"
  /\ kind' = "none"
  /\ force' = FALSE
  /\ segments' = << >>
  /\ suppressions' = NoSuppressions
  /\ frequencies' = EmptyMap
  /\ todo' = << >>
  /\ master_read' = EmptyMap
  /\ segments_with_tokens' = << >>
  /\ lemmas' = EmptyMap
  /\ idx' = 0
  /\ events' = << >>
  /\ status_code' = 0
  /\ response' = NoResponse
  /\ annot_log' = << >>
  /\ store0' = store
  /\ master0' = master
  /\ working0' = working
  /\ request' = NoRequest
  /\ UNCHANGED << files, writers >>

(***************************************************************************)
(* Initial states: a freshly ingested project.                             *)
(***************************************************************************)
\* no handler is running
NoHandler ==
  /\ pc = "idle"
  /\ kind = "none"
  /\ force = FALSE
  /\ segments = << >>
  /\ suppressions = NoSuppressions
  /\ frequencies = EmptyMap
  /\ todo = << >>
  /\ master_read = EmptyMap
  /\ segments_with_tokens = << >>
  /\ lemmas = EmptyMap
  /\ idx = 0
  /\ events = << >>
  /\ status_code = 0
  /\ response = NoResponse
  /\ request = NoRequest
  /\ writers = NoWriters
  /\ annot_log = << >>
  /\ store0 = store
  /\ master0 = master
  /\ working0 = working

Init ==
  /\ \E c \in SeqsUpTo(Texts, MaxSegs) :
       /\ store = [i \in DOMAIN c |-> NewTu(i, c[i])]
       /\ segment_files \in {Absent, Json(IngestedFiles(Len(c)))}
  /\ master \in {Absent, Malformed, Json(StaleMaster)}
  /\ working = Absent
  /\ suppressions_file = Absent
  /\ NoHandler

Next ==
  \/ \E f \in BOOLEAN, fault \in {"none", "remove", "load"} : FreqStreamStart(f, fault)
  \/ FreqCheckCache
  \/ FreqFileTick
  \/ FreqSegment
  \/ FreqSaveTick
  \/ FreqWrite
  \/ FreqStreamComplete
  \/ \E fault \in {"none", "load"} : ConcStreamStart(fault)
  \/ ConcEntry
  \/ ConcLoad
  \/ ConcSegment
  \/ ConcFinalTick
  \/ ConcWrite
  \/ ConcStreamComplete
  \/ BuildConcordances
  \/ LoadProject
  \/ \E s \in SuppressionChoices : SaveSuppressions(s)
  \/ Finish

Spec == Init /\ [][Next]_vars

(***************************************************************************)
(* Frequency aggregation under reordering: a project whose segment-to-file *)
(* mapping is arbitrary (any file for any unit, units missing from it), so *)
(* that the grouped loops visit the units in another order than the        *)
(* document's, and a caller that hands extract_lemma_frequencies the       *)
(* segment list in any order.                                              *)
(***************************************************************************)
Reorderings(n) == { q \in [1..n -> 1..n] : \A i, j \in 1..n : q[i] = q[j] => i = j }

PartialMaps(ids, names) == UNION { [D -> names] : D \in SUBSET ids }

\* extract_lemma_frequencies(segments, project_path) on a reordered list
ExtractFrequenciesReordered(q) ==
  /\ pc = "idle"
  /\ LET segs == [i \in DOMAIN q |-> load_segments(store, FALSE)[q[i]]]
         r == extract_lemma_frequencies(store, master, segs)
     IN /\ segments' = segs
        /\ store' = r.store
        /\ master' = r.master
        /\ annot_log' = r.log
        /\ status_code' = IF r.ok THEN 200 ELSE 500
  /\ response' = NoResponse
  /\ UNCHANGED << request, writers >>
  /\ kind' = "extract_lemma_frequencies"
  /\ pc' = "done"
  /\ UNCHANGED << segment_files, working, suppressions_file, force, suppressions,
                  frequencies, todo, master_read, segments_with_tokens, lemmas, idx,
                  events, store0, master0, working0 >>

InitOrder ==
  /\ \E c \in SeqsUpTo({SrcA, SrcB}, MaxSegs) :
       /\ store = [i \in DOMAIN c |-> NewTu(i, c[i])]
       /\ \E m \in PartialMaps({ ToString(i) : i \in DOMAIN c }, {"a.txt", "b.txt"}) :
            segment_files = Json(m)
  /\ master = Absent
  /\ working = Absent
  /\ suppressions_file = Absent
  /\ NoHandler

NextOrder ==
  \/ FreqStreamStart(FALSE, "none")
  \/ FreqCheckCache
  \/ FreqFileTick
  \/ FreqSegment
  \/ FreqSaveTick
  \/ FreqWrite
  \/ FreqStreamComplete
  \/ \E q \in Reorderings(Len(store)) : ExtractFrequenciesReordered(q)

SpecOrder == InitOrder /\ [][NextOrder]_vars

(***************************************************************************)
(* Progress reporting of a concordance build over a project of any length  *)
(* whose units hold the tokens of an earlier build and whose Master Cache  *)
(* is in place.                                                            *)
(***************************************************************************)
\* a translation unit after tokenize_and_store_segment has written to it
MemoizedTu(i, text) ==
  [NewTu(i, text) EXCEPT !.token_props = << TokensProp(tokenize(text)) >>]

\* the project lengths: none, one, two, fifty and the long run
RunLengths == {0, 1, 2, 50, LongRun}

InitTicks ==
  /\ \E n \in RunLengths : store = [i \in 1..n |-> MemoizedTu(i, SrcA)]
  /\ segment_files = Absent
  /\ master = Json(StaleMaster)
  /\ working = Absent
  /\ suppressions_file = Absent
  /\ NoHandler

NextTicks ==
  \/ ConcStreamStart("none")
  \/ ConcEntry
  \/ ConcLoad
  \/ ConcSegment
  \/ ConcFinalTick
  \/ ConcWrite
  \/ ConcStreamComplete

SpecTicks == InitTicks /\ [][NextTicks]_vars

(***************************************************************************)
(* Interrupted builds and their retries: the streams of a project on which *)
(* the annotation never fails, cut short by a disconnecting client or a    *)
(* killed process and then requested again.                                *)
(***************************************************************************)
InitRetry ==
  /\ \E c \in SeqsUpTo({SrcA, SrcB}, MaxSegs) :
       /\ store = [i \in DOMAIN c |-> NewTu(i, c[i])]
       /\ segment_files = Json(IngestedFiles(Len(c)))
  /\ master \in {Absent, Json(StaleMaster)}
  /\ working = Absent
  /\ suppressions_file \in {Absent, Json([pos |-> {"VERB"}, lemmas |-> {}])}
  /\ NoHandler

NextRetry ==
  \/ \E f \in BOOLEAN : FreqStreamStart(f, "none")
  \/ FreqCheckCache
  \/ FreqFileTick
  \/ FreqSegment
  \/ FreqSaveTick
  \/ FreqWrite
  \/ FreqStreamComplete
  \/ ConcStreamStart("none")
  \/ ConcEntry
  \/ ConcLoad
  \/ ConcSegment
  \/ ConcFinalTick
  \/ ConcWrite
  \/ ConcStreamComplete
  \/ Disconnect
  \/ Crash
  \/ Finish

SpecRetry == InitRetry /\ [][NextRetry]_vars

(***************************************************************************)
(* Lookups of a lemma's occurrences, between concordance builds under      *)
(* changing suppressions.                                                  *)
(***************************************************************************)
InitLookup ==
  /\ \E c \in SeqsUpTo(Texts, MaxSegs) :
       /\ store = [i \in DOMAIN c |-> NewTu(i, c[i])]
       /\ segment_files = Json(IngestedFiles(Len(c)))
  /\ master \in {Absent, Json(StaleMaster)}
  /\ working \in {Absent, Malformed}
  /\ suppressions_file = Absent
  /\ NoHandler

NextLookup ==
  \/ \E k \in LookupKeys : GetLemmaConcordances(k)
  \/ BuildConcordances
  \/ \E s \in SuppressionChoices : SaveSuppressions(s)
  \/ Finish

SpecLookup == InitLookup /\ [][NextLookup]_vars

(***************************************************************************)
(* Concordance builds over a project whose units are found with any kind   *)
(* of token property: none, a text that does not parse, an empty list, a   *)
(* list that is not made of token records, the tokens of an earlier build. *)
(***************************************************************************)
PropKinds == {"none", "unparseable", "empty_list", "lemmaless", "memoized"}

\* a translation unit as it is found on disk
FoundTu(i, text, prop_kind) ==
  [NewTu(i, text) EXCEPT !.token_props =
     CASE prop_kind = "unparseable" -> << BadProp >>
       [] prop_kind = "empty_list" -> << TokensProp(<< >>) >>
       [] prop_kind = "lemmaless" -> << LemmalessProp >>
       [] prop_kind = "memoized" -> << TokensProp(tokenize(text)) >>
       [] OTHER -> << >>]

InitTokens ==
  /\ \E c \in SeqsUpTo({SrcA, SrcB}, MaxSegs) :
       /\ \E ks \in [DOMAIN c -> PropKinds] :
            store = [i \in DOMAIN c |-> FoundTu(i, c[i], ks[i])]
       /\ segment_files = Json(IngestedFiles(Len(c)))
  /\ master \in {Absent, Json(StaleMaster)}
  /\ working = Absent
  /\ suppressions_file = Absent
  /\ NoHandler

NextTokens ==
  \/ ConcStreamStart("none")
  \/ ConcEntry
  \/ FreqCheckCache
  \/ FreqFileTick
  \/ FreqSegment
  \/ FreqSaveTick
  \/ FreqWrite
  \/ ConcLoad
  \/ ConcSegment
  \/ ConcFinalTick
  \/ ConcWrite
  \/ ConcStreamComplete
  \/ BuildConcordances
  \/ Finish

SpecTokens == InitTokens /\ [][NextTokens]_vars

(***************************************************************************)
(* A project in use: the translator edits targets and saves suppressions   *)
(* between frequency builds (forced or not), concordance builds and        *)
(* lookups.                                                                *)
(***************************************************************************)
\* the segment ids of update requests: of the first units, and of none
EditIds == {"1", "2", "0"}

\* the target texts the translator types
TargetTexts == {"The cat", "A cat"}

\* the readings of the clock at the edits
EditTimes == {1}

InitEdit ==
  /\ \E c \in SeqsUpTo(Texts, MaxSegs) :
       /\ store = [i \in DOMAIN c |-> NewTu(i, c[i])]
       /\ segment_files = Json(IngestedFiles(Len(c)))
  /\ master \in {Absent, Malformed, Json(StaleMaster)}
  /\ working = Absent
  /\ suppressions_file = Absent
  /\ NoHandler

NextEdit ==
  \/ \E id \in EditIds, text \in TargetTexts, now \in EditTimes : UpdateTarget(id, text, now)
  \/ \E f \in BOOLEAN : FreqStreamStart(f, "none")
  \/ FreqCheckCache
  \/ FreqFileTick
  \/ FreqSegment
  \/ FreqSaveTick
  \/ FreqWrite
  \/ FreqStreamComplete
  \/ BuildConcordances
  \/ GetLemmaConcordances("katt|NOUN")
  \/ SaveSuppressions([pos |-> {"VERB"}, lemmas |-> {}])
  \/ Finish

SpecEdit == InitEdit /\ [][NextEdit]_vars

(***************************************************************************)
(* Two calls that rewrite project.tmx on two threads of the server: the    *)
(* token write of a running build for one unit, and a target update or     *)
(* another token write for a different unit.  Each call parses the whole   *)
(* file into a tree, edits the tree and writes the whole tree back; the    *)
(* parse and the write are separate steps.                                 *)
(***************************************************************************)
\* a call of save_tokens_to_tmx that has not yet parsed the file
TokenWrite(segment_id, tokens) ==
  [op |-> "save_tokens", segment_id |-> segment_id, tokens |-> tokens,
   new_text |-> "", now |-> 0, stage |-> "called", tree |-> << >>]

\* a call of update_target_segment that has not yet parsed the file
TargetWrite(segment_id, new_text, now) ==
  [op |-> "update_target", segment_id |-> segment_id, tokens |-> << >>,
   new_text |-> new_text, now |-> now, stage |-> "called", tree |-> << >>]

\* the units a and b of the store are written at the same time: a by a
\* build's token write, b by the call `other`
ConcurrentCalls(a, b, other) ==
  /\ pc = "idle"
  /\ writers = NoWriters
  /\ a \in DOMAIN store
  /\ b \in DOMAIN store
  /\ a # b
  /\ other.segment_id = store[b].id
  /\ writers' = << TokenWrite(store[a].id, tokenize(store[a].source)), other >>
  /\ UNCHANGED << files, pc, locals, events, status_code, response, annot_log,
                  store0, master0, working0, request >>

\* tree = ET.parse(tmx_file)
WriterParse(w) ==
  /\ w \in DOMAIN writers
  /\ writers[w].stage = "called"
  /\ writers' = [writers EXCEPT ![w].stage = "parsed", ![w].tree = store]
  /\ UNCHANGED << files, pc, locals, events, status_code, response, annot_log,
                  store0, master0, working0, request >>

\* the edit of the tree and tree.write(tmx_file)
WriterWrite(w) ==
  /\ w \in DOMAIN writers
  /\ writers[w].stage = "parsed"
  /\ store' = IF writers[w].op = "save_tokens"
              THEN save_tokens_to_tmx(writers[w].tree, writers[w].segment_id,
                                      writers[w].tokens)
              ELSE update_target_segment(writers[w].tree, writers[w].segment_id,
                                         writers[w].new_text, writers[w].now)
  /\ writers' = [writers EXCEPT ![w].stage = "written", ![w].tree = << >>]
  /\ UNCHANGED << segment_files, master, working, suppressions_file, pc, locals, events,
                  status_code, response, annot_log, store0, master0, working0, request >>

\* both calls have returned
WritersReturn ==
  /\ writers # NoWriters
  /\ \A w \in DOMAIN writers : writers[w].stage = "written"
  /\ writers' = NoWriters
  /\ UNCHANGED << files, pc, locals, events, status_code, response, annot_log,
                  store0, master0, working0, request >>

InitRace ==
  /\ \E c \in SeqsUpTo({SrcA, SrcB}, MaxSegs) :
       /\ store = [i \in DOMAIN c |-> NewTu(i, c[i])]
       /\ segment_files = Json(IngestedFiles(Len(c)))
  /\ master = Absent
  /\ working = Absent
  /\ suppressions_file = Absent
  /\ NoHandler

NextRace ==
  \/ \E a, b \in 1..MaxSegs, text \in TargetTexts, now \in EditTimes :
       \/ ConcurrentCalls(a, b, TargetWrite(ToString(b), text, now))
       \/ /\ b \in DOMAIN store
          /\ ConcurrentCalls(a, b, TokenWrite(ToString(b), tokenize(store[b].source)))
  \/ \E w \in 1..2 : WriterParse(w)
  \/ \E w \in 1..2 : WriterWrite(w)
  \/ WritersReturn

SpecRace == InitRace /\ [][NextRace]_vars

(***************************************************************************)
(* The lemma keys of a corpus for which the engine returns a lemma that    *)
(* contains the separator.                                                 *)
(***************************************************************************)
InitKeys ==
  /\ \E c \in SeqsUpTo({SrcA, SrcP}, MaxSegs) :
       /\ store = [i \in DOMAIN c |-> NewTu(i, c[i])]
       /\ segment_files = Json(IngestedFiles(Len(c)))
  /\ master = Absent
  /\ working = Absent
  /\ suppressions_file = Absent
  /\ NoHandler

NextKeys ==
  \/ FreqStreamStart(FALSE, "none")
  \/ FreqCheckCache
  \/ FreqFileTick
  \/ FreqSegment
  \/ FreqSaveTick
  \/ FreqWrite
  \/ FreqStreamComplete
  \/ BuildConcordances
  \/ LoadProject
  \/ Finish

SpecKeys == InitKeys /\ [][NextKeys]_vars

(***************************************************************************)
(* The streaming builders next to the legacy ones, called directly with    *)
(* and without a progress callback, from the same projects.                *)
(***************************************************************************)
InitLegacy ==
  /\ \E c \in SeqsUpTo(Texts, MaxSegs) :
       /\ store = [i \in DOMAIN c |-> NewTu(i, c[i])]
       /\ segment_files \in {Absent, Json(IngestedFiles(Len(c)))}
  /\ master \in {Absent, Malformed, Json(StaleMaster)}
  /\ working = Absent
  /\ suppressions_file \in {Absent, Json([pos |-> {"VERB"}, lemmas |-> {}])}
  /\ NoHandler

NextLegacy ==
  \/ FreqStreamStart(FALSE, "none")
  \/ FreqCheckCache
  \/ FreqFileTick
  \/ FreqSegment
  \/ FreqSaveTick
  \/ FreqWrite
  \/ FreqStreamComplete
  \/ ConcStreamStart("none")
  \/ ConcEntry
  \/ ConcLoad
  \/ ConcSegment
  \/ ConcFinalTick
  \/ ConcWrite
  \/ ConcStreamComplete
  \/ \E callback \in BOOLEAN : ExtractLemmaFrequencies(callback)
  \/ \E callback \in BOOLEAN : BuildWorkingConcordances(callback)
  \/ Finish

SpecLegacy == InitLegacy /\ [][NextLegacy]_vars

(***************************************************************************)
(* Memoized annotation across the two passes: frequency builds followed by *)
(* concordance builds, over units found with or without token properties,  *)
(* among them units with an empty source, in which the engine finds no     *)
(* word.                                                                   *)
(***************************************************************************)
InitMemo ==
  /\ \E c \in SeqsUpTo({SrcA, SrcE}, MaxSegs) :
       /\ \E ks \in [DOMAIN c -> {"none", "unparseable", "memoized"}] :
            store = [i \in DOMAIN c |-> FoundTu(i, c[i], ks[i])]
       /\ segment_files = Json(IngestedFiles(Len(c)))
  /\ master \in {Absent, Json(StaleMaster)}
  /\ working = Absent
  /\ suppressions_file = Absent
  /\ NoHandler

NextMemo ==
  \/ \E f \in BOOLEAN : FreqStreamStart(f, "none")
  \/ FreqCheckCache
  \/ FreqFileTick
  \/ FreqSegment
  \/ FreqSaveTick
  \/ FreqWrite
  \/ FreqStreamComplete
  \/ ConcStreamStart("none")
  \/ ConcEntry
  \/ ConcLoad
  \/ ConcSegment
  \/ ConcFinalTick
  \/ ConcWrite
  \/ ConcStreamComplete
  \/ BuildConcordances
  \/ Finish

SpecMemo == InitMemo /\ [][NextMemo]_vars

(***************************************************************************)
(* The read endpoints of a project, before, between and after the builds.  *)
(***************************************************************************)
InitRead ==
  /\ \E c \in SeqsUpTo(Texts, MaxSegs) :
       /\ store = [i \in DOMAIN c |-> NewTu(i, c[i])]
       /\ segment_files = Json(IngestedFiles(Len(c)))
  /\ master \in {Absent, Malformed, Json(StaleMaster)}
  /\ working \in {Absent, Malformed}
  /\ suppressions_file = Absent
  /\ NoHandler

NextRead ==
  \/ \E k \in LookupKeys : GetLemmaConcordances(k)
  \/ LemmaFrequencies
  \/ ConcordanceStatus
  \/ LoadProject
  \/ BuildConcordances
  \/ \E s \in SuppressionChoices : SaveSuppressions(s)
  \/ Finish

SpecRead == InitRead /\ [][NextRead]_vars

(***************************************************************************)
(* The streams under a consumer that keeps draining: the server resumes    *)
(* the generator after every event it has sent, and every call the         *)
(* generator makes returns or raises, so a step that is possible is taken. *)
(***************************************************************************)
StreamStep ==
  \/ FreqCheckCache
  \/ FreqFileTick
  \/ FreqSegment
  \/ FreqSaveTick
  \/ FreqWrite
  \/ FreqStreamComplete
  \/ ConcEntry
  \/ ConcLoad
  \/ ConcSegment
  \/ ConcFinalTick
  \/ ConcWrite
  \/ ConcStreamComplete

InitDrained ==
  /\ \E c \in SeqsUpTo({SrcA, SrcF}, MaxSegs) :
       /\ store = [i \in DOMAIN c |-> NewTu(i, c[i])]
       /\ segment_files = Json(IngestedFiles(Len(c)))
  /\ master \in {Absent, Json(StaleMaster)}
  /\ working = Absent
  /\ suppressions_file = Absent
  /\ NoHandler

NextDrained ==
  \/ \E f \in BOOLEAN, fault \in {"none", "remove", "load"} : FreqStreamStart(f, fault)
  \/ \E fault \in {"none", "load"} : ConcStreamStart(fault)
  \/ StreamStep
  \/ Finish

SpecDrained == InitDrained /\ [][NextDrained]_vars /\ WF_vars(StreamStep)

(***************************************************************************)
(* Vocabulary of the properties.                                           *)
(***************************************************************************)
Last(q) == q[Len(q)]

\* key.split("|")[1]: the POS tag the routes read off a lemma key
pos_of_key(key) == split(key, "|")[2]

StreamKinds == {"freq_stream", "conc_stream"}

\* the stream ran to its complete event, or is about to yield it
StreamSucceeded ==
  \/ pc = "s_complete"
  \/ pc = "done" /\ events # << >> /\ Last(events).status = "complete"

\* a concordance build (streaming or legacy) has written the Working Cache
\* and nothing has run since
ConcordanceBuilt ==
  \/ kind = "conc_stream" /\ StreamSucceeded
  \/ kind = "build_concordances" /\ pc = "done" /\ status_code = 200

\* a token that is counted (alphabetic, non-empty lemma) and its lemma key
counted(tok) == isalpha(tok.text) /\ lower(strip(tok.lemma)) # ""
key_of(tok) == lemma_key(lower(strip(tok.lemma)), tok.pos)

\* the counted tokens of a source text
Counted(text) == SelectSeq(tokenize(text), counted)

\* how many counted tokens of the text have key k, and their wordforms
CountIn(text, k) ==
  Cardinality({ j \in DOMAIN Counted(text) : key_of(Counted(text)[j]) = k })

WordformsIn(text, k) ==
  { lower(Counted(text)[j].text) :
      j \in { i \in DOMAIN Counted(text) : key_of(Counted(text)[i]) = k } }

RECURSIVE Sum(_)
Sum(q) == IF q = << >> THEN 0 ELSE Head(q) + Sum(Tail(q))

\* per source text and lemma key: the wordforms, the number and the POS of
\* the counted tokens of the text
TextTable ==
  [t \in Texts |->
     [k \in { key_of(Counted(t)[j]) : j \in DOMAIN Counted(t) } |->
        [wordforms |-> WordformsIn(t, k),
         count |-> CountIn(t, k),
         pos |-> { Counted(t)[j].pos :
                     j \in { i \in DOMAIN Counted(t) : key_of(Counted(t)[i]) = k } }]]]

\* what the unit contributes to key k
InUnit(u, k) ==
  IF k \in DOMAIN TextTable[u.source] THEN TextTable[u.source][k]
  ELSE [wordforms |-> {}, count |-> 0, pos |-> {}]

\* the Master Cache content the corpus determines
ExpectedMaster(st) ==
  LET keys == UNION { DOMAIN TextTable[st[i].source] : i \in DOMAIN st }
  IN [k \in keys |->
        [wordforms |-> UNION { InUnit(st[i], k).wordforms : i \in DOMAIN st },
         count |-> Sum([i \in DOMAIN st |-> InUnit(st[i], k).count])]]

\* the Working Cache content that segments, Master Cache content and
\* suppressions determine
ExpectedWorking(st, mst, supp) ==
  LET shown(u, k) == /\ k \notin supp.lemmas
                     /\ \E p \in InUnit(u, k).pos : p \notin supp.pos
  IN [k \in DOMAIN mst |->
        LET units == SelectSeq(st, LAMBDA u : shown(u, k))
        IN IF units = << >>
           THEN [wordforms |-> mst[k].wordforms, occurrences |-> << >>]
           ELSE [wordforms |-> UNION { InUnit(units[i], k).wordforms : i \in DOMAIN units },
                 occurrences |-> [i \in DOMAIN units |->
                                    [segment_id |-> units[i].id,
                                     source_segment |-> units[i].source]]]]

NoAnnotationFailure(st) == \A i \in DOMAIN st : ~nlp_raises(st[i].source)

(***************************************************************************)
(* Properties.                                                             *)
(***************************************************************************)

\* C1: after a successful concordance build, under every suppression set,
\* every lemma key of the Master Cache is a key of the Working Cache.
C1_Completeness ==
  ConcordanceBuilt =>
    /\ master.tag = "json"
    /\ working.tag = "json"
    /\ DOMAIN master.data \subseteq DOMAIN working.data

\* a build under a non-empty suppression set kept a suppressed key the
\* corpus contains
C1_Witness ==
  /\ ConcordanceBuilt
  /\ "VERB" \in suppressions.pos
  /\ \E i \in DOMAIN store : store[i].source = SrcA
  /\ master.tag = "json" /\ "lope|VERB" \in DOMAIN master.data
  /\ working.tag = "json" /\ "lope|VERB" \in DOMAIN working.data

\* C2: after a successful concordance build with suppression set S, every
\* Working Cache key listed in S.lemmas, or whose POS is listed in S.pos,
\* has an empty occurrence list.
C2_SuppressedEmpty ==
  ConcordanceBuilt =>
    \A k \in DOMAIN working.data :
      (k \in suppressions.lemmas \/ pos_of_key(k) \in suppressions.pos)
        => working.data[k].occurrences = << >>

\* a suppressed POS whose key occurs in the corpus was withheld, while another
\* key of the same build has occurrences
C2_Witness ==
  /\ ConcordanceBuilt
  /\ "VERB" \in suppressions.pos
  /\ \E i \in DOMAIN store : store[i].source = SrcA
  /\ "lope|VERB" \in DOMAIN working.data
  /\ working.data["lope|VERB"].occurrences = << >>
  /\ \E k \in DOMAIN working.data : working.data[k].occurrences # << >>

\* C3: in the Working Cache a concordance build produced, no lemma key lists
\* the same segment id twice.
C3_OncePerSegment ==
  ConcordanceBuilt =>
    \A k \in DOMAIN working.data :
      \A i, j \in DOMAIN working.data[k].occurrences :
        working.data[k].occurrences[i].segment_id = working.data[k].occurrences[j].segment_id
          => i = j

\* a segment holding two tokens of the lemma is listed once under its key
C3_Witness ==
  /\ ConcordanceBuilt
  /\ "katt|NOUN" \in DOMAIN working.data
  /\ \E i \in DOMAIN store :
       /\ store[i].source = SrcB
       /\ CountIn(store[i].source, "katt|NOUN") = 2
       /\ Cardinality({ j \in DOMAIN working.data["katt|NOUN"].occurrences :
                          working.data["katt|NOUN"].occurrences[j].segment_id = store[i].id }) = 1

\* a frequency build ran (or is running) through the cache check without force
FrequencyBuildNoForce ==
  \/ kind = "freq_stream" /\ ~force
  \/ kind = "load_project" /\ ~(exists(working0) /\ working0.tag = "json")

NothingRecomputed ==
  /\ master = master0
  /\ annot_log = << >>
  /\ store = store0

C5_MemoizedPath ==
  kind \in {"freq_stream", "load_project"} =>
    \A i \in DOMAIN annot_log : ~annot_log[i].memoized

\* C6: the Working Cache a concordance build writes is determined by the
\* segments, the Master Cache content and the suppressions passed to the
\* build; the Working Cache that was there before has no part in it.
C6_PureFunction ==
  ConcordanceBuilt =>
    /\ master.tag = "json"
    /\ working = Json(ExpectedWorking(store0, master.data, suppressions))

\* a build that replaced a Working Cache built under other suppressions
C6_Witness ==
  /\ ConcordanceBuilt
  /\ working0.tag = "json"
  /\ working0 # working
  /\ \E k \in DOMAIN working0.data : working0.data[k].occurrences # << >>

\* the Master Cache content that aggregating in document order yields
DocumentOrderFrequencies(st) ==
  frequency_loop(st, EmptyMap, << >>, load_segments(st, FALSE)).frequencies

\* C7: frequency aggregation is order-independent: whatever order the
\* segments are processed in (a permuted list, or the per-file grouping of the
\* progress-reporting branch), the Master Cache has the keys, wordform sets
\* and counts of the document-order aggregation.
C7_OrderIndependent ==
  master.tag = "json" => master.data = DocumentOrderFrequencies(store)

\* the grouped loops processed two different units in reverse document order
\* and both contributed to one key
C7_Witness ==
  /\ kind = "freq_stream"
  /\ master.tag = "json"
  /\ Len(segments) = 2
  /\ segments[1].source # segments[2].source
  /\ grouped_segments(segments, get_segment_files_map) = << segments[2], segments[1] >>
  /\ "katt|NOUN" \in DOMAIN master.data
  /\ master.data["katt|NOUN"].count = 3

\* C8: a successful forced frequency build leaves a Master Cache with exactly
\* the keys, wordform sets and counts of the segments in the store, whatever
\* the Master Cache held before.
C8_ForcedRebuildExact ==
  (kind = "freq_stream" /\ force /\ StreamSucceeded) => master = Json(ExpectedMaster(store))

\* a forced build replaced the Master Cache of an earlier corpus
C8_Witness ==
  /\ kind = "freq_stream" /\ force /\ StreamSucceeded
  /\ master0 = Json(StaleMaster)
  /\ master # master0
  /\ master.tag = "json" /\ "katt|NOUN" \in DOMAIN master.data
  /\ master.data["katt|NOUN"].count = 2

\* C9: a concordance build started with the Master Cache absent builds the
\* frequencies first and ends with both caches present, the Working Cache
\* complete for that Master Cache; it fails only when reading the store or
\* the annotation itself fails.
C9_GracefulDegrade ==
  (kind \in {"conc_stream", "build_concordances"} /\ master0 = Absent) =>
    /\ pc \in {"c_load", "c_loop", "c_write", "s_complete"} => master.tag = "json"
    /\ (/\ pc = "done"
        /\ NoAnnotationFailure(store)
        /\ kind = "conc_stream" => events[1].status = "started")
       => /\ ConcordanceBuilt
          /\ master.tag = "json" /\ master.data = ExpectedMaster(store)
          /\ working.tag = "json"
          /\ DOMAIN master.data \subseteq DOMAIN working.data

\* a completed streaming build that began without a Master Cache
C9_Witness ==
  /\ kind = "conc_stream" /\ master0 = Absent
  /\ pc = "done" /\ Last(events).status = "complete"
  /\ master.tag = "json" /\ DOMAIN master.data # {}
  /\ working.tag = "json"

\* C10: every event sequence of a stream holds exactly one started event, and
\* it comes first, also when loading the segments or the forced deletion fails.
C10_StartedFirst ==
  (kind \in StreamKinds /\ events # << >>) =>
    /\ events[1].status = "started"
    /\ \A i \in DOMAIN events : i > 1 => events[i].status # "started"

\* the progress events of the stream so far, in order
ProgressEvents == SelectSeq(events, LAMBDA e : e.status = "progress")

\* C11: within one stream the current value of successive progress events
\* never decreases, also in a concordance stream that began without a Master
\* Cache and ran the frequency pass through the same callback.
C11_CurrentMonotone ==
  kind \in StreamKinds =>
    \A i \in DOMAIN ProgressEvents :
      i > 1 => ProgressEvents[i - 1].current <= ProgressEvents[i].current

Terminal(e) == e.status \in {"complete", "error"}

\* C12: a stream that ran to its end holds exactly one terminal event,
\* complete or error, and it is the last event; no event follows a terminal
\* event.
C12_OneTerminal ==
  kind \in StreamKinds =>
    /\ \A i \in DOMAIN events : Terminal(events[i]) => (i = Len(events) /\ pc = "done")
    /\ pc = "done" => (events # << >> /\ Terminal(Last(events)))

\* a stream that failed in its segment loop after it had reported progress
C12_Witness ==
  /\ kind \in StreamKinds
  /\ pc = "done"
  /\ Last(events).status = "error"
  /\ ProgressEvents # << >>
  /\ annot_log # << >>

\* floor(current / total * 100), and 0 for an empty total
FloorPercent(current, total) == IF total > 0 THEN (current * 100) \div total ELSE 0

\* C13: every progress event carries percent = floor(current / total * 100)
\* for its own current and total, and percent = 0 when total = 0.
C13_PercentIsFloor ==
  \A i \in DOMAIN ProgressEvents :
    ProgressEvents[i].percent = FloorPercent(ProgressEvents[i].current, ProgressEvents[i].total)

\* the progress events of the segment loop of the concordance builder
SegmentTicks == SelectSeq(ProgressEvents, LAMBDA e : e.message = "segment")

\* max(1, N div 100)
TickSpacing(n) == IF n \div 100 >= 1 THEN n \div 100 ELSE 1

\* the concordance builder has left its segment loop without an error
SegmentLoopDone ==
  \/ pc \in {"c_write", "s_complete"}
  \/ pc = "done" /\ Last(events).status = "complete"

FileTicks == SelectSeq(ProgressEvents, LAMBDA e : e.message = "file")

\* the distinct source files of the units; a unit the Segment-File Index
\* does not list belongs to the one file "unknown"
DistinctFiles(st) ==
  { IF segment_files.tag = "json" /\ st[i].id \in DOMAIN segment_files.data
    THEN segment_files.data[st[i].id] ELSE "unknown" : i \in DOMAIN st }

\* the Master Cache as the pass finds it (after the forced deletion)
MasterBefore == IF kind = "freq_stream" THEN forced_delete(force, master0) ELSE master0

\* C15: a streaming frequency build that is not a cache hit yields one
\* progress event per distinct source file of its segments (and the one
\* saving tick at the end), so their number follows the files, not the
\* segments.
C15_TickPerFile ==
  (kind = "freq_stream" /\ ~master_cache_hit(MasterBefore)) =>
    /\ Len(FileTicks) <= Cardinality(DistinctFiles(store0))
    /\ Len(ProgressEvents) <= Cardinality(DistinctFiles(store0)) + 1
    /\ \A i, j \in DOMAIN FileTicks : FileTicks[i].current = FileTicks[j].current => i = j
    /\ StreamSucceeded =>
         /\ Len(FileTicks) = Cardinality(DistinctFiles(store0))
         /\ Len(ProgressEvents) = Len(FileTicks) + 1

\* a completed build whose two segments came from one file: one file tick
C15_Witness ==
  /\ kind = "freq_stream" /\ ~master_cache_hit(MasterBefore)
  /\ pc = "done" /\ Last(events).status = "complete"
  /\ Len(store0) = 2
  /\ Cardinality(DistinctFiles(store0)) = 1
  /\ Len(FileTicks) = 1

\* the run ended with an error (error event, or status 500)
RunFailed ==
  /\ pc = "done"
  /\ \/ kind \in StreamKinds /\ Last(events).status = "error"
     \/ kind \notin StreamKinds /\ status_code = 500

\* the engine was called for every unit of the store
EveryUnitAnnotated ==
  { annot_log[i].id : i \in DOMAIN annot_log } = { store0[i].id : i \in DOMAIN store0 }

\* C16: a frequency build writes the Master Cache at most once and only after
\* every segment has been annotated; a pass that is aborted before that point
\* writes nothing, so the Master Cache never holds the counts of a prefix.
C16_WrittenOnceAtEnd ==
  (kind # "none" /\ (kind \in StreamKinds => events[1].status = "started")) =>
    /\ pc \in {"f_check", "f_loop", "f_write"} => master = MasterBefore
    /\ master # MasterBefore =>
         (master = Json(ExpectedMaster(store0)) /\ EveryUnitAnnotated)
    /\ (RunFailed /\ ~EveryUnitAnnotated) => master = MasterBefore

\* a pass that failed on its second segment after it had annotated and
\* memoized the first: the Master Cache is as it was
C16_Witness ==
  /\ kind = "freq_stream"
  /\ RunFailed
  /\ Len(annot_log) = 2
  /\ store # store0
  /\ ~master_cache_hit(MasterBefore)
  /\ master = MasterBefore

\* C17: when a build aborts with an error after it has started, the Master
\* Cache and the Working Cache that were committed before it began are still
\* there, unchanged.
C17_CachesSurviveAbort ==
  (RunFailed /\ (kind \in StreamKinds => events[1].status = "started")) =>
    /\ master0.tag = "json" => master = master0
    /\ working0.tag = "json" => working = working0

\* the files one uninterrupted run of the request leaves behind, started on
\* the files the request first found
UninterruptedRun ==
  IF kind = "freq_stream"
  THEN LET r == extract_lemma_frequencies(store0, forced_delete(force, master0),
                                          load_segments(store0, FALSE))
       IN [store |-> r.store, master |-> r.master, working |-> working0]
  ELSE LET r == build_working_concordances(store0, master0, working0,
                                           load_segments(store0, FALSE), suppressions)
       IN [store |-> r.store, master |-> r.master, working |-> r.working]

\* C18: a build that was interrupted after it had memoized the tokens of some
\* of the segments and is then run again to its end, with no cleanup, leaves
\* the Master Cache, the Working Cache and the memoized tokens of a single
\* uninterrupted run from the original files.
C18_RetryIdempotent ==
  (kind \in StreamKinds /\ pc = "done" /\ Last(events).status = "complete") =>
    /\ store = UninterruptedRun.store
    /\ master = UninterruptedRun.master
    /\ working = UninterruptedRun.working

\* a concordance build over two units without tokens completed on a retry:
\* this attempt called the engine for the second unit only, the first had
\* been memoized by the attempt that was cut short
C18_Witness ==
  /\ kind = "conc_stream"
  /\ pc = "done" /\ Last(events).status = "complete"
  /\ Len(store0) = 2
  /\ \A i \in DOMAIN store0 : store0[i].token_props = << >>
  /\ Len(annot_log) = 1
  /\ annot_log[1].id = "2"
  /\ working.tag = "json"

\* C19: when the consumer of a build stream disconnects after the build has
\* started, the builder still runs to its end and writes its cache: the Master
\* Cache for the frequency stream, the Working Cache for the concordance
\* stream.
C19_BuildSurvivesDisconnect ==
  pc = "closed" =>
    /\ kind = "freq_stream" => master.tag = "json"
    /\ kind = "conc_stream" => working.tag = "json"

\* C20: get_lemma_concordances answers the occurrence list stored under the
\* key in the Working Cache, an empty list for a suppressed key included, and
\* NotFound when there is no Working Cache or no such key in it; the answer
\* depends on the Working Cache alone, and nothing is computed or written.
C20_LookupReadsWorkingOnly ==
  (kind = "get_lemma_concordances" /\ pc = "done") =>
    /\ (working.tag = "json" /\ response.lemma_key \in DOMAIN working.data) =>
         /\ status_code = 200
         /\ response.occurrences = working.data[response.lemma_key].occurrences
    /\ (working.tag = "absent"
        \/ (working.tag = "json" /\ response.lemma_key \notin DOMAIN working.data)) =>
         status_code = 404
    /\ annot_log = << >>
    /\ store = store0 /\ master = master0 /\ working = working0

\* the key of a suppressed POS is answered with its empty list, while the
\* Master Cache counts it
C20_Witness ==
  /\ kind = "get_lemma_concordances" /\ pc = "done"
  /\ status_code = 200
  /\ response.lemma_key = "lope|VERB"
  /\ response.occurrences = << >>
  /\ master.tag = "json" /\ "lope|VERB" \in DOMAIN master.data
  /\ \E k \in DOMAIN working.data : working.data[k].occurrences # << >>

\* a unit whose token property is there but is not a well-formed token list
MalformedTokens(tu) ==
  /\ tu.token_props # << >>
  /\ \/ tokens_prop(tu).tag # "json"
     \/ ~is_token_list(json_loads(tokens_prop(tu).val))

\* a concordance build (streaming or legacy) has ended, in whatever way
ConcordanceBuildEnded ==
  /\ kind \in {"conc_stream", "build_concordances"}
  /\ pc = "done"

\* the build ended in an error event or an error status
BuildFailed ==
  \/ kind \in StreamKinds /\ events # << >> /\ Last(events).status = "error"
  \/ kind \notin StreamKinds /\ status_code = 500

\* C21: a concordance build over units whose persisted token value is not a
\* well-formed token list (unparseable text, or parseable data that is not a
\* list of {text, lemma, pos} records) does not fail: each such unit is
\* re-annotated and holds the fresh tokens afterwards.
C21_MalformedTokensAreMiss ==
  ConcordanceBuildEnded =>
    /\ (\E i \in DOMAIN store0 : MalformedTokens(store0[i])) => ~BuildFailed
    /\ \A i \in DOMAIN store0 :
         MalformedTokens(store0[i]) =>
           /\ \E j \in DOMAIN annot_log : annot_log[j].id = store0[i].id
           /\ store[i].token_props = << TokensProp(tokenize(store0[i].source)) >>

\* what the builders do keep: a token text that does not parse, or an empty
\* list, is re-annotated and written back without an error
UnparseableTokensAreMiss ==
  (ConcordanceBuildEnded /\ \A i \in DOMAIN store0 : ~tokens_raise(load_segments(store0, TRUE)[i])) =>
    /\ ~BuildFailed
    /\ \A i \in DOMAIN store0 :
         (MalformedTokens(store0[i]) \/ tokens_prop(store0[i]) = TokensProp(<< >>)) =>
           /\ \E j \in DOMAIN annot_log : annot_log[j].id = store0[i].id
           /\ store[i].token_props = << TokensProp(tokenize(store0[i].source)) >>

\* a build of the given kinds has ended that found a Master Cache file that
\* does not parse, with no failure of the engine or of the first I/O steps
EndedOnMalformedMaster(kinds) ==
  /\ kind \in kinds
  /\ pc = "done"
  /\ master0 = Malformed
  /\ NoAnnotationFailure(store0)
  /\ kind \in StreamKinds => events[1].status = "started"

\* C22: a Master Cache that exists but does not parse is a cache miss for
\* both builders: the frequency build rewrites it from the corpus, and a
\* concordance build started in that state rebuilds it too and ends with a
\* Working Cache, not with an error.
C22_MalformedMasterRecovered ==
  EndedOnMalformedMaster({"freq_stream", "conc_stream", "build_concordances"}) =>
    /\ ~BuildFailed
    /\ master = Json(ExpectedMaster(store0))
    /\ kind # "freq_stream" => working.tag = "json"

\* what the builders do keep: the frequency build recovers
FrequencyBuildRecoversMaster ==
  EndedOnMalformedMaster({"freq_stream"}) =>
    /\ ~BuildFailed
    /\ master = Json(ExpectedMaster(store0))

\* the token lists that are persisted: none, and the engine's for each text
TokenLists == { << >>, tokenize(SrcA), tokenize(SrcB) }

\* load_segments with tokens after save_tokens_to_tmx(id, t) returns t for
\* that unit, whatever token property the unit held before
TokensReloadAsPersisted ==
  \A i \in DOMAIN store, t \in TokenLists :
    load_segments(save_tokens_to_tmx(store, store[i].id, t), TRUE)[i].tokens = Some(t)

\* after a concordance build, a unit whose persisted tokens had been
\* corrupted loads the engine's tokens for its source again
CorruptedTokensRestored ==
  ConcordanceBuildEnded =>
    \A i \in DOMAIN store0 :
      MalformedTokens(store0[i]) =>
        load_segments(store, TRUE)[i].tokens = Some(tokenize(store0[i].source))

\* C23: tokens that were persisted are loaded back equal to what was
\* persisted, and if the persisted tokens are corrupted afterwards, the next
\* concordance build re-annotates the unit and leaves it with the same
\* tokens again.
C23_TokenRoundTrip == TokensReloadAsPersisted /\ CorruptedTokensRestored

\* the segment ids a caller passes: those of the store, and one that is not
\* in it
CallIds(st) == { st[i].id : i \in DOMAIN st } \cup {"0"}

\* C24: save_tokens_to_tmx is an idempotent replace.  Every unit carries at
\* most one token property; after save_tokens_to_tmx(id, t) the unit with
\* that id carries exactly the property of t; the call applied twice leaves
\* the store of the call applied once; no other unit and no source, target
\* or timestamp is changed.
C24_IdempotentReplace ==
  /\ \A i \in DOMAIN store : Len(store[i].token_props) <= 1
  /\ \A id \in CallIds(store), t \in TokenLists :
       LET once == save_tokens_to_tmx(store, id, t)
           twice == save_tokens_to_tmx(once, id, t)
       IN /\ twice = once
          /\ DOMAIN once = DOMAIN store
          /\ \A i \in DOMAIN store :
               /\ once[i].id = store[i].id
               /\ once[i].source = store[i].source
               /\ once[i].target = store[i].target
               /\ once[i].last_updated = store[i].last_updated
               /\ IF store[i].id = id
                  THEN once[i].token_props = << TokensProp(t) >>
                  ELSE once[i] = store[i]

\* a build has written the tokens of a unit that held a token property
\* before, and the unit holds the new property alone
C24_Witness ==
  /\ pc = "done"
  /\ \E i \in DOMAIN store :
       /\ store0[i].token_props = << BadProp >>
       /\ \E j \in DOMAIN annot_log : annot_log[j].id = store[i].id
       /\ store[i].token_props = << TokensProp(tokenize(store[i].source)) >>

\* the update_segment route has answered
TargetUpdated == kind = "update_segment" /\ pc = "done"

\* C25: update_target_segment with an id that is not in the store raises no
\* error and leaves every unit as it was; with an id that is in the store it
\* sets that unit's target, changes nothing of the unit but target and
\* timestamp, and leaves every other unit as it was.
C25_UpdateTargetFrame ==
  TargetUpdated =>
    /\ status_code = 200
    /\ DOMAIN store = DOMAIN store0
    /\ \A i \in DOMAIN store0 :
         IF store0[i].id = request.segment_id
         THEN /\ store[i].target = request.target_text
              /\ store[i] = [store0[i] EXCEPT !.target = store[i].target,
                                              !.last_updated = store[i].last_updated]
         ELSE store[i] = store0[i]
    /\ (\A i \in DOMAIN store0 : store0[i].id # request.segment_id) => store = store0

\* the target of a unit that holds memoized tokens and an older target has
\* been replaced, while another unit with tokens exists
C25_Witness ==
  /\ TargetUpdated
  /\ \E i, j \in DOMAIN store :
       /\ i # j
       /\ store0[i].id = request.segment_id
       /\ store0[i].token_props # << >>
       /\ store0[i].target \notin {"", request.target_text}
       /\ store[i].target = request.target_text
       /\ store[j].token_props # << >>

\* a streaming concordance build is between its start and its last event
ConcStreamRunning ==
  /\ kind = "conc_stream"
  /\ pc \notin {"idle", "done", "closed", "killed"}

\* C26: the suppressions are read once, when the concordance build starts:
\* the step that starts the build reads the suppression file, no later step
\* of the running build changes what was read, whatever is saved to the file
\* meanwhile, and the step that writes the Working Cache writes the one
\* that the suppressions read at the start determine.
C26_SuppressionsReadOnce ==
  [][ /\ (~ConcStreamRunning /\ ConcStreamRunning') => suppressions' = get_suppressions
      /\ ConcStreamRunning => suppressions' = suppressions
      /\ (ConcStreamRunning /\ pc = "c_write" /\ pc' = "s_complete") =>
           working' = Json(ExpectedWorking(store0, master.data, suppressions))
    ]_vars

\* a build has written its Working Cache after the suppression file was
\* saved with other content than the build had read, and the cache is not
\* the one the saved content would give
C26_Witness ==
  /\ kind = "conc_stream"
  /\ StreamSucceeded
  /\ suppressions # get_suppressions
  /\ working = Json(ExpectedWorking(store0, master.data, suppressions))
  /\ working # Json(ExpectedWorking(store0, master.data, get_suppressions))

\* the step belongs to a forced frequency build
ForcedBuildStep == kind' = "freq_stream" /\ force'

C28_TokensNeverDeleted ==
  [][ \A i \in DOMAIN store :
        has_persisted_tokens(store, store[i].id) =>
          /\ i \in DOMAIN store'
          /\ store'[i].id = store[i].id
          /\ has_persisted_tokens(store', store[i].id)
    ]_vars

\* a forced frequency build has aborted on a later unit after it rewrote the
\* tokens of a unit whose target had been edited, and the unit holds its
\* tokens
C28_Witness ==
  /\ kind = "freq_stream"
  /\ force
  /\ pc = "done"
  /\ Last(events).status = "error"
  /\ \E i \in DOMAIN store :
       /\ has_persisted_tokens(store0, store[i].id)
       /\ store0[i].target # ""
       /\ \E j \in DOMAIN annot_log : annot_log[j].id = store[i].id
       /\ has_persisted_tokens(store, store[i].id)

\* both concurrent calls have written the file
BothWritten ==
  /\ writers # NoWriters
  /\ \A w \in DOMAIN writers : writers[w].stage = "written"

\* the store holds what the call wrote
WriteKept(call) ==
  \E i \in DOMAIN store :
    /\ store[i].id = call.segment_id
    /\ IF call.op = "save_tokens"
       THEN store[i].token_props = << TokensProp(call.tokens) >>
       ELSE store[i].target = call.new_text

\* C29: a build's token write for one unit and a concurrent target update
\* or token write for a different unit lose nothing: when both have
\* completed, the store holds the tokens of the one and the new target (or
\* tokens) of the other, however their parse and write steps interleave.
C29_NoLostUpdate ==
  BothWritten => \A w \in DOMAIN writers : WriteKept(writers[w])

\* the (lemma, POS) pairs of the counted tokens of the corpus
CorpusPairs(st) ==
  UNION { { [lemma |-> lower(strip(Counted(st[i].source)[j].lemma)),
             pos |-> Counted(st[i].source)[j].pos] :
              j \in DOMAIN Counted(st[i].source) } : i \in DOMAIN st }

\* every key of the cache is the join of a pair of the corpus, and splits
\* back into that pair
KeysSplitBack(cache, st) ==
  cache.tag = "json" =>
    \A key \in DOMAIN cache.data :
      \E pair \in CorpusPairs(st) :
        /\ key = lemma_key(pair.lemma, pair.pos)
        /\ split(pair.lemma, "|") = << pair.lemma >>
        /\ lemma_dict(cache.data)[key] = pair

\* C30: every lemma key of the Master Cache and of the Working Cache is the
\* join of one lemma and one POS tag with "|", the lemma holds no "|", and
\* splitting the key at "|" gives back the lemma and the POS tag it was
\* joined from, whatever tokens the engine returns.
C30_KeysSplitBack ==
  /\ KeysSplitBack(master, store)
  /\ KeysSplitBack(working, store)

\* what holds of the corpora whose lemmas hold no separator
PlainLemmaKeysSplitBack ==
  (\A pair \in CorpusPairs(store) : split(pair.lemma, "|") = << pair.lemma >>) =>
    C30_KeysSplitBack

\* C31: worked example.  For a store holding the single segment
\* "Katten og hunden lop.", a frequency build yields katt|NOUN with wordforms
\* {"katten"} and count 1 and lope|VERB with count 1, and the punctuation
\* token contributes no key; a concordance build with suppressions
\* {pos: ["VERB"]} over that Master Cache yields lope|VERB with no
\* occurrences and katt|NOUN with exactly one, the segment's id and source.
SingleSegmentExample == Len(store) = 1 /\ store[1].source = SrcA

C31_WorkedExample ==
  SingleSegmentExample =>
    /\ (kind = "freq_stream" /\ StreamSucceeded /\ annot_log # << >>) =>
          /\ master.tag = "json"
          /\ "katt|NOUN" \in DOMAIN master.data
          /\ master.data["katt|NOUN"] = [wordforms |-> {"katten"}, count |-> 1]
          /\ "lope|VERB" \in DOMAIN master.data
          /\ master.data["lope|VERB"].count = 1
          /\ \A k \in DOMAIN master.data :
                split(k, "|")[1] # "." /\ pos_of_key(k) # "PUNCT"
    /\ (/\ ConcordanceBuilt
        /\ suppressions = [pos |-> {"VERB"}, lemmas |-> {}]
        /\ master.tag = "json"
        /\ {"katt|NOUN", "lope|VERB"} \subseteq DOMAIN master.data) =>
          /\ working.tag = "json"
          /\ "lope|VERB" \in DOMAIN working.data
          /\ working.data["lope|VERB"].occurrences = << >>
          /\ "katt|NOUN" \in DOMAIN working.data
          /\ working.data["katt|NOUN"].occurrences =
                << [segment_id |-> store[1].id, source_segment |-> SrcA] >>

\* the example's concordance build has run on the Master Cache that the
\* example's frequency build wrote
C31_Witness ==
  /\ SingleSegmentExample
  /\ ConcordanceBuilt
  /\ suppressions = [pos |-> {"VERB"}, lemmas |-> {}]
  /\ master.tag = "json"
  /\ DOMAIN master.data = {"katt|NOUN", "og|CCONJ", "hund|NOUN", "lope|VERB"}
  /\ working.tag = "json"
  /\ working.data["katt|NOUN"].occurrences # << >>

\* the files a drained generator leaves, from the files its run began with
StreamedFrequencies ==
  drained_frequencies_generator(store0, master0, load_segments(store0, FALSE),
                                get_segment_files_map)

StreamedConcordances ==
  drained_concordances_generator(store0, master0, working0, load_segments(store0, FALSE),
                                 suppressions, get_segment_files_map)

\* the stepwise streams end with the files of the drained generators
StreamsAreDrainedGenerators ==
  /\ (kind = "freq_stream" /\ pc = "done") => master = StreamedFrequencies.master
  /\ (kind = "conc_stream" /\ pc = "done") =>
       /\ master = StreamedConcordances.master
       /\ working = StreamedConcordances.working

LegacyFrequencyKinds ==
  {"extract_lemma_frequencies", "extract_lemma_frequencies(progress_callback)"}

LegacyConcordanceKinds ==
  {"build_working_concordances", "build_working_concordances(progress_callback)"}

LegacyAgrees(frequency_kinds, concordance_kinds) ==
  /\ (kind \in frequency_kinds /\ pc = "done") => master = StreamedFrequencies.master
  /\ (kind \in concordance_kinds /\ pc = "done") =>
       /\ master = StreamedConcordances.master
       /\ working = StreamedConcordances.working

\* C32: from the same Segment Store, caches and suppressions, the legacy
\* builders leave the Master Cache and the Working Cache that the streaming
\* builders leave, whether or not a progress callback is supplied.
C32_BuildersEquivalent == LegacyAgrees(LegacyFrequencyKinds, LegacyConcordanceKinds)

\* what holds of the calls without a callback
LegacyWithoutCallbackAgrees ==
  LegacyAgrees({"extract_lemma_frequencies"}, {"build_working_concordances"})

\* the stream has yielded its complete event
CompleteEmitted ==
  /\ kind \in StreamKinds
  /\ pc = "done"
  /\ events # << >>
  /\ Last(events).status = "complete"

\* C33: a complete event is emitted only after the build's artifact has been
\* persisted: when a frequency stream has emitted complete the Master Cache
\* exists, and when a concordance stream has emitted complete the Working
\* Cache exists, is the one the build has just written, and the event's
\* total_lemmas and with_concordances are its number of keys and its number
\* of keys with a non-empty occurrence list.
C33_CompleteAfterPersisted ==
  CompleteEmitted =>
    /\ kind = "freq_stream" =>
         /\ exists(master)
         /\ annot_log # << >> => master = Json(frequencies)
    /\ kind = "conc_stream" =>
         /\ exists(working)
         /\ working = Json(merge_with_master(master_read, lemmas))
         /\ Last(events).total_lemmas = Cardinality(DOMAIN working.data)
         /\ Last(events).with_concordances =
              Cardinality({ k \in DOMAIN working.data :
                              working.data[k].occurrences # << >> })

\* a concordance stream completed on a Working Cache in which some keys have
\* occurrences and some have none
C33_Witness ==
  /\ CompleteEmitted
  /\ kind = "conc_stream"
  /\ working0 = Absent
  /\ Last(events).with_concordances > 0
  /\ Last(events).total_lemmas > Last(events).with_concordances

\* C34: after a successful concordance build the key set of the Working
\* Cache is the key set of the Master Cache the build read; a lemma key of
\* the segments' tokens that the Master Cache lacks is not written.
C34_KeysOfMaster ==
  ConcordanceBuilt =>
    /\ master.tag = "json"
    /\ working.tag = "json"
    /\ DOMAIN working.data = DOMAIN master.data
    /\ kind = "conc_stream" => DOMAIN working.data = DOMAIN master_read

\* a build over a Master Cache of an earlier corpus: a key of the tokens is
\* left out, a key of no token is kept
C34_Witness ==
  /\ ConcordanceBuilt
  /\ master = Json(StaleMaster)
  /\ \E seg \in { load_segments(store, TRUE)[i] : i \in DOMAIN store } :
       /\ seg.tokens.has
       /\ \E j \in DOMAIN seg.tokens.val : seg.tokens.val[j].lemma = "hund"
  /\ "hund|NOUN" \notin DOMAIN working.data
  /\ "gammel|ADJ" \in DOMAIN working.data

\* the key is not withheld by the suppressions of the build
NotSuppressed(k) == k \notin suppressions.lemmas /\ pos_of_key(k) \notin suppressions.pos

\* the loaded segment has an alphabetic token with key k
HasTokenOfKey(seg, k) ==
  /\ seg.tokens.has
  /\ \E j \in DOMAIN seg.tokens.val :
       isalpha(seg.tokens.val[j].text) /\ key_of(seg.tokens.val[j]) = k

\* the segments of the store, in document order, that have a token of key k
SegmentsOfKey(k) ==
  SelectSeq(load_segments(store, TRUE), LAMBDA seg : HasTokenOfKey(seg, k))

\* C35: after a successful concordance build, for every non-suppressed
\* Master Cache key k the occurrence list of k holds exactly the segments
\* that have an alphabetic token with key k, each with its id and source
\* text, in the document order of the Segment Store; a non-suppressed key
\* with no such segment has an empty list and the Master Cache's wordforms.
C35_OccurrencesOfKey ==
  ConcordanceBuilt =>
    \A k \in DOMAIN master.data :
      NotSuppressed(k) =>
        /\ k \in DOMAIN working.data
        /\ working.data[k].occurrences =
             [i \in DOMAIN SegmentsOfKey(k) |->
                [segment_id |-> SegmentsOfKey(k)[i].id,
                 source_segment |-> SegmentsOfKey(k)[i].source]]
        /\ SegmentsOfKey(k) = << >> =>
             working.data[k].wordforms = master.data[k].wordforms

\* a build that listed two segments under one key, and kept a key of the
\* Master Cache that no segment has
C35_Witness ==
  /\ ConcordanceBuilt
  /\ \E k \in DOMAIN master.data :
       NotSuppressed(k) /\ Len(working.data[k].occurrences) = 2
  /\ \E k \in DOMAIN master.data :
       /\ NotSuppressed(k)
       /\ SegmentsOfKey(k) = << >>
       /\ working.data[k].wordforms # {}

\* the Master Cache is the work of a frequency build over this store: the one
\* the project began with lists a lemma of no text, and the source texts of
\* the store never change
MasterBuiltHere == master.tag = "json" /\ master # Json(StaleMaster)

\* C36: every Master Cache entry has a count of at least 1 and a non-empty
\* wordform set; and after a frequency build followed by a concordance build
\* over the same store, every key has at most as many occurrences in the
\* Working Cache as its count in the Master Cache, and the same wordform set
\* in both caches.
C36_CrossCache ==
  /\ master.tag = "json" =>
       \A k \in DOMAIN master.data :
         master.data[k].count >= 1 /\ master.data[k].wordforms # {}
  /\ (ConcordanceBuilt /\ MasterBuiltHere) =>
       \A k \in DOMAIN master.data :
         /\ k \in DOMAIN working.data
         /\ Len(working.data[k].occurrences) <= master.data[k].count
         /\ working.data[k].wordforms = master.data[k].wordforms

\* both builds have run: a key counted twice in one segment is listed once,
\* and a suppressed key has kept its wordforms
C36_Witness ==
  /\ ConcordanceBuilt
  /\ MasterBuiltHere
  /\ \E k \in DOMAIN master.data :
       Len(working.data[k].occurrences) = 1 /\ master.data[k].count = 2
  /\ \E k \in DOMAIN master.data :
       /\ ~NotSuppressed(k)
       /\ working.data[k].occurrences = << >>
       /\ working.data[k].wordforms # {}

\* the frequency stream has completed and was not a cache hit
FrequencyBuildCompleted ==
  /\ kind = "freq_stream"
  /\ CompleteEmitted
  /\ force \/ ~master_cache_hit(master0)

\* the Master Cache the handler found was written by a frequency build over
\* this store, which has not changed since but for its token properties
AfterFrequencyBuild == master0.tag = "json" /\ master0 # Json(StaleMaster)

\* the token property the unit held when the handler began is an empty list
\* or is malformed
EmptyOrMalformedAtStart(segment_id) ==
  \E i \in DOMAIN store0 :
    /\ store0[i].id = segment_id
    /\ \/ tokens_prop(store0[i]).tag = "malformed"
       \/ /\ tokens_prop(store0[i]).tag = "json"
          /\ \/ json_loads(tokens_prop(store0[i]).val) = << >>
             \/ ~is_token_list(json_loads(tokens_prop(store0[i]).val))

\* C37: after a frequency build that was not a cache hit has completed,
\* every segment passed to it has persisted tokens; and a concordance build
\* that follows over the unchanged store calls the engine only for segments
\* whose persisted token list is empty or malformed.
C37_MemoizedAcrossPasses ==
  /\ FrequencyBuildCompleted =>
       \A i \in DOMAIN segments :
         /\ has_persisted_tokens(store, segments[i].id)
         /\ load_segments(store, TRUE)[i].tokens = Some(tokenize(segments[i].source))
  /\ (kind \in {"conc_stream", "build_concordances"} /\ AfterFrequencyBuild) =>
       \A j \in DOMAIN annot_log : EmptyOrMalformedAtStart(annot_log[j].id)

\* a concordance build after a frequency build used the persisted tokens of
\* one unit and called the engine for another, whose token list is empty
C37_Witness ==
  /\ ConcordanceBuilt
  /\ AfterFrequencyBuild
  /\ Len(store) = 2
  /\ Len(annot_log) = 1
  /\ \E i \in DOMAIN store0 :
       /\ store0[i].id = annot_log[1].id
       /\ tokens_prop(store0[i]) = TokensProp(<< >>)

ReadKinds == {"get_lemma_concordances", "lemma_frequencies", "concordance_status"}

\* a read endpoint answers
ReadStep == pc = "idle" /\ pc' = "done" /\ kind' \in ReadKinds

\* the answer says that the cache the endpoint reads has not been built
NotBuiltAnswer ==
  /\ (kind' = "get_lemma_concordances" /\ ~exists(working)) => status_code' = 404
  /\ (kind' = "lemma_frequencies" /\ ~exists(master)) => status_code' = 404
  /\ (kind' = "concordance_status" /\ ~exists(working)) =>
       /\ status_code' = 200
       /\ response'.built = FALSE
       /\ response'.has_master = exists(master)

\* C38: get_lemma_concordances, lemma_frequencies and concordance_status
\* leave the Master Cache, the Working Cache, the Suppression Set and the
\* segments of the Segment Store unchanged and never call the engine; when
\* the cache they read is absent they answer not-built (404, or built=false)
\* and start no build.
C38_ReadEndpointsFrame ==
  [][ReadStep =>
        /\ UNCHANGED << store, master, working, suppressions_file >>
        /\ annot_log' = << >>
        /\ NotBuiltAnswer]_vars

\* lemma_frequencies has answered 404 for a project that has segments and
\* no Master Cache, and has left it without one
C38_Witness ==
  /\ pc = "done"
  /\ kind = "lemma_frequencies"
  /\ status_code = 404
  /\ store # << >>
  /\ NoAnnotationFailure(store)
  /\ ~exists(master0)
  /\ ~exists(master)

\* a stream has been started and has not ended
StreamRunning == kind \in StreamKinds /\ pc \notin {"idle", "done"}

\* the stream has ended with its terminal event
TerminalEmitted ==
  /\ kind \in StreamKinds
  /\ pc = "done"
  /\ events # << >>
  /\ Last(events).status \in {"complete", "error"}

\* started, a tick per file and the saving tick of the frequency pass, a tick
\* per segment and the finalizing tick of the concordance pass, the terminal
\* event
MostEvents(n) == 2 * n + 4

\* C39: every build stream terminates: when every call returns or raises
\* and the consumer keeps draining, a frequency or concordance stream over a
\* finite segment list emits its terminal event, after a number of progress
\* events that the length of the list bounds.
C39_StreamTerminates ==
  /\ StreamRunning ~> TerminalEmitted
  /\ [](Len(events) <= MostEvents(Len(store)))

\* a concordance stream that ran the frequency pass and both loops over the
\* longest store has emitted complete
C39_Witness ==
  /\ TerminalEmitted
  /\ kind = "conc_stream"
  /\ Last(events).status = "complete"
  /\ Len(store) = MaxSegs
  /\ annot_log # << >>
  /\ Len(events) > Len(store) + 3

====
